---- MODULE Spec2Model ----
(***************************************************************************)
(* Model of the ViTA Design System MCP server (src/mcp-server/server.py):  *)
(* the lazily built token catalog (design_data), the Extractor             *)
(* (_parse_css_tokens), the Merger (_merge_figma_data), the resource       *)
(* resolver (handle_read_resource) and the tool dispatcher                 *)
(* (handle_call_tool) with its producers.                                  *)
(*                                                                         *)
(* Text that the program parses (the token source) is a sequence of        *)
(* one-character strings, so that the regular expression, startswith,      *)
(* replace and strip are computed character by character.  Text that the   *)
(* program only builds is a TLA+ string, assembled with \o as the          *)
(* f-strings assemble it.                                                  *)
(***************************************************************************)
EXTENDS Integers, Sequences, FiniteSets, TLC

(***************************************************************************)
(* Bounds of the model.                                                    *)
(***************************************************************************)
\* largest number of declarations in a generated token-source text
MaxDecls == 2
\* largest number of times the environment changes a source file
MaxEnvChanges == 1
\* cap of the counters of source reads
MaxReads == 2

(***************************************************************************)
(* Python string operations, on sequences of characters.                   *)
(***************************************************************************)
\* the characters str.strip() and the regex class \s remove
Whitespace == {" ", "\n", "\t"}

\* "".join(s): the string spelled by a sequence of characters
RECURSIVE Str(_)
Str(s) == IF s = <<>> THEN "" ELSE Head(s) \o Str(Tail(s))

\* s.startswith(p)
StartsWith(s, p) == Len(s) >= Len(p) /\ SubSeq(s, 1, Len(p)) = p

\* s.lstrip()
RECURSIVE LStrip(_)
LStrip(s) ==
  IF s # <<>> /\ Head(s) \in Whitespace THEN LStrip(Tail(s)) ELSE s

\* s.rstrip()
RECURSIVE RStrip(_)
RStrip(s) ==
  IF s # <<>> /\ s[Len(s)] \in Whitespace
  THEN RStrip(SubSeq(s, 1, Len(s) - 1))
  ELSE s

\* s.strip()
Strip(s) == RStrip(LStrip(s))

\* s.replace(old, new): every non-overlapping occurrence, left to right
RECURSIVE Replace(_, _, _)
Replace(s, old, new) ==
  IF s = <<>> THEN <<>>
  ELSE IF StartsWith(s, old)
       THEN new \o Replace(SubSeq(s, Len(old) + 1, Len(s)), old, new)
       ELSE <<Head(s)>> \o Replace(Tail(s), old, new)

\* index of the first c in s at or after position from, 0 when there is none
FirstIndex(s, c, from) ==
  IF \E i \in from..Len(s) : s[i] = c
  THEN CHOOSE i \in from..Len(s) :
         s[i] = c /\ \A j \in from..(i - 1) : s[j] # c
  ELSE 0

(***************************************************************************)
(* The regular expression of the Extractor,                                *)
(*   property_pattern = r'--vita-([^:]+):\s*([^;]+);'                      *)
(* and re.findall over the text.                                           *)
(***************************************************************************)
\* the literal head of property_pattern
PatternHead == <<"-", "-", "v", "i", "t", "a", "-">>

\* The match of property_pattern that starts at position i, if any.
\* ([^:]+) runs to the first colon and needs one character; \s* is greedy
\* and ([^;]+) runs to the first semicolon and needs one character, which
\* \s* gives back when only whitespace stands before the semicolon.
MatchAt(text, i) ==
  LET n == Len(PatternHead)
      j == FirstIndex(text, ":", i + n)
      k == IF j = 0 THEN 0 ELSE FirstIndex(text, ";", j + 1)
      between == SubSeq(text, j + 1, k - 1)
  IN  IF /\ i + n - 1 <= Len(text)
         /\ SubSeq(text, i, i + n - 1) = PatternHead
         /\ j > i + n
         /\ k > j + 1
      THEN [ok |-> TRUE,
            prop_name |-> SubSeq(text, i + n, j - 1),
            value |-> IF LStrip(between) = <<>>
                      THEN <<between[Len(between)]>>
                      ELSE LStrip(between),
            end |-> k]
      ELSE [ok |-> FALSE, prop_name |-> <<>>, value |-> <<>>, end |-> 0]

\* re.findall(property_pattern, content) scanning from position i:
\* the sequence of (prop_name, value) pairs of the non-overlapping matches
RECURSIVE FindAllFrom(_, _)
FindAllFrom(text, i) ==
  IF i > Len(text) THEN <<>>
  ELSE LET m == MatchAt(text, i)
       IN  IF m.ok
           THEN <<[prop_name |-> m.prop_name, value |-> m.value]>>
                  \o FindAllFrom(text, m.end + 1)
           ELSE FindAllFrom(text, i + 1)

FindAll(text) == FindAllFrom(text, 1)

(***************************************************************************)
(* The Extractor: _parse_css_tokens.                                       *)
(***************************************************************************)
\* Python's empty dict {}
EmptyDict == <<>>

\* d.get(k, {}) on a mapping
GetOrEmpty(d, k) == IF k \in DOMAIN d THEN d[k] ELSE EmptyDict

\* d[k] = v on a mapping (insert or overwrite)
SetItem(d, k, v) == [x \in DOMAIN d \cup {k} |-> IF x = k THEN v ELSE d[x]]

\* the prefixes the Extractor tests prop_name against
ColorPrefix == <<"c", "o", "l", "o", "r", "-">>
FontPrefix == <<"f", "o", "n", "t", "-">>
SpacingPrefix == <<"s", "p", "a", "c", "i", "n", "g", "-">>

\* the dict literal tokens starts from: the seven categories, empty
EmptyShapedTokens ==
  [colors |-> EmptyDict,
   typography |-> EmptyDict,
   spacing |-> EmptyDict,
   components |-> [buttons |-> EmptyDict, inputs |-> EmptyDict,
                   cards |-> EmptyDict],
   themes |-> [light |-> EmptyDict, dark |-> EmptyDict],
   guidelines |-> [accessibility |-> EmptyDict],
   examples |-> [layouts |-> EmptyDict]]

\* tokens["components"] after the scan
SeedComponents ==
  [buttons |->
     [primary |-> [class |-> "vita-button vita-button-primary",
                   description |-> "Primary action button",
                   usage |-> "Main CTAs, form submissions"],
      secondary |-> [class |-> "vita-button vita-button-secondary",
                     description |-> "Secondary action button",
                     usage |-> "Secondary actions, cancel buttons"],
      edit |-> [class |-> "vita-button vita-button-edit",
                description |-> "Edit action button",
                usage |-> "Edit operations, modify content"],
      delete |-> [class |-> "vita-button vita-button-delete",
                  description |-> "Delete action button",
                  usage |-> "Destructive actions, remove content"]],
   inputs |->
     [default |-> [class |-> "vita-input",
                   description |-> "Standard text input",
                   states |-> <<"default", "focus", "error", "disabled">>],
      label |-> [class |-> "vita-input-label",
                 description |-> "Input label styling"]],
   cards |->
     [default |-> [class |-> "vita-card",
                   description |-> "Standard content card",
                   usage |-> "Content containers, information display"]]]

\* tokens["themes"] after the scan
SeedThemes ==
  [light |-> [data_attribute |-> "data-theme=\"light\"",
              description |-> "Light theme configuration",
              primary_surface |-> "var(--vita-color-surface-background)",
              primary_text |-> "var(--vita-color-text-on-surface)"],
   dark |-> [data_attribute |-> "data-theme=\"dark\"",
             description |-> "Dark theme configuration",
             primary_surface |-> "var(--vita-color-surface-background)",
             primary_text |-> "var(--vita-color-text-on-surface)"]]

\* tokens["guidelines"] after the scan
SeedGuidelines ==
  [accessibility |->
     [contrast_ratios |-> [normal_text |-> "4.5:1 minimum (WCAG AA)",
                           large_text |-> "3:1 minimum (WCAG AA)"],
      focus_indicators |->
        [outline |-> "2px solid var(--vita-color-brand-primary)",
         offset |-> "2px"],
      semantic_markup |-> <<"Use proper heading hierarchy (h1-h6)",
                            "Include ARIA labels where appropriate",
                            "Use semantic HTML elements">>]]

\* tokens["examples"] after the scan
SeedExamples ==
  [layouts |->
     [dashboard |-> [description |-> "Analytics dashboard layout",
                     components |-> <<"navigation", "cards", "charts",
                                      "tables">>],
      form |-> [description |-> "Form layout with validation",
                components |-> <<"inputs", "labels", "buttons",
                                 "validation">>],
      landing |-> [description |-> "Landing page layout",
                   components |-> <<"hero", "features", "cta",
                                    "footer">>]]]

\* the record written for a color declaration (prop_name, value stripped)
ColorRecord(prop_name, value) ==
  LET category == Replace(Replace(prop_name, ColorPrefix, <<>>),
                          <<"-">>, <<"_">>)
  IN  [key |-> "vita_color_" \o Str(category),
       rec |-> [value |-> value,
                css_var |-> "--vita-color-"
                              \o Str(Replace(prop_name, ColorPrefix, <<>>)),
                description |-> "ViTA color token for "
                              \o Str(Replace(category, <<"_">>, <<" ">>))]]

\* the record written for a font declaration
FontRecord(prop_name, value) ==
  LET category == Replace(Replace(prop_name, FontPrefix, <<>>),
                          <<"-">>, <<"_">>)
  IN  [key |-> "vita_font_" \o Str(category),
       rec |-> [value |-> value,
                css_var |-> "--vita-font-"
                              \o Str(Replace(prop_name, FontPrefix, <<>>)),
                description |-> "ViTA typography token for "
                              \o Str(Replace(category, <<"_">>, <<" ">>))]]

\* the record written for a spacing declaration
SpacingRecord(prop_name, value) ==
  LET category == Replace(Replace(prop_name, SpacingPrefix, <<>>),
                          <<"-">>, <<"_">>)
  IN  [key |-> "vita_spacing_" \o Str(category),
       rec |-> [value |-> value,
                css_var |-> "--vita-spacing-"
                              \o Str(Replace(prop_name, SpacingPrefix, <<>>)),
                description |-> "ViTA spacing token " \o Str(category)]]

\* one iteration of for prop_name, value in matches
Categorize(tokens, m) ==
  LET value == Str(Strip(m.value))
  IN  IF StartsWith(m.prop_name, ColorPrefix)
      THEN LET r == ColorRecord(m.prop_name, value)
           IN  [tokens EXCEPT !.colors = SetItem(@, r.key, r.rec)]
      ELSE IF StartsWith(m.prop_name, FontPrefix)
      THEN LET r == FontRecord(m.prop_name, value)
           IN  [tokens EXCEPT !.typography = SetItem(@, r.key, r.rec)]
      ELSE IF StartsWith(m.prop_name, SpacingPrefix)
      THEN LET r == SpacingRecord(m.prop_name, value)
           IN  [tokens EXCEPT !.spacing = SetItem(@, r.key, r.rec)]
      ELSE tokens

\* the whole loop over the matches, in order
RECURSIVE CategorizeAll(_, _)
CategorizeAll(tokens, matches) ==
  IF matches = <<>> THEN tokens
  ELSE CategorizeAll(Categorize(tokens, Head(matches)), Tail(matches))

\* an extractor that sets the seed descriptors after the try block, where
\* _parse_css_tokens sets them inside it
ParseCssTokensSeeding(css) ==
  [(IF css.state = "unreadable" THEN EmptyShapedTokens
    ELSE CategorizeAll(EmptyShapedTokens, FindAll(css.content)))
     EXCEPT !.components = SeedComponents,
            !.themes = SeedThemes,
            !.guidelines = SeedGuidelines,
            !.examples = SeedExamples]

\* _parse_css_tokens(css_file) for a file that exists: the open or the read
\* raises for an unreadable file and the except clause returns tokens as
\* it stands, still empty-shaped; otherwise the scan and then the seeds.
ParseCssTokens(css) ==
  IF css.state = "unreadable" THEN EmptyShapedTokens
  ELSE [CategorizeAll(EmptyShapedTokens, FindAll(css.content))
          EXCEPT !.components = SeedComponents,
                 !.themes = SeedThemes,
                 !.guidelines = SeedGuidelines,
                 !.examples = SeedExamples]

(***************************************************************************)
(* The fallback catalog: _get_fallback_data.                               *)
(***************************************************************************)
FallbackData ==
  [EmptyShapedTokens EXCEPT !.colors =
     [vita_color_brand_primary |->
        [value |-> "#003965",
         css_var |-> "--vita-color-brand-primary",
         description |-> "Primary brand color"]]]

(***************************************************************************)
(* JSON documents, as json.load returns them.  An object keeps its items   *)
(* in document order (<<key, value>> pairs, keys distinct), which is the   *)
(* order the Merger's loops visit them in.                                 *)
(***************************************************************************)
JObj(items) == [t |-> "obj", items |-> items]
JStr(s) == [t |-> "str", v |-> s]
JArr(elems) == [t |-> "arr", elems |-> elems]
JNull == [t |-> "null"]

\* k in o, for an object o
Has(o, k) == \E i \in 1..Len(o.items) : o.items[i][1] = k

\* o[k], for an object o that has k
Get(o, k) == o.items[CHOOSE i \in 1..Len(o.items) : o.items[i][1] = k][2]

(***************************************************************************)
(* The Merger: _merge_figma_data.  Its state is the catalog and whether an *)
(* exception has ended the loops (the except clause only logs it).         *)
(***************************************************************************)
\* a leaf step that assigns the key whether or not the catalog has it, where
\* _merge_figma_data tests token_key not in self.design_data["colors"]
MergeLeafOverwriting(st, category, color_name, theme, theme_data) ==
  LET token_key ==
        "vita_color_" \o category \o "_" \o color_name \o "_" \o theme
  IN  IF "colors" \notin DOMAIN st.dd
      THEN [st EXCEPT !.raised = TRUE]
      ELSE [st EXCEPT !.dd.colors =
              SetItem(@, token_key,
                [value |-> Get(theme_data, "value").v,
                 figma_path |-> "color." \o category \o "." \o color_name
                                  \o "." \o theme,
                 description |-> IF Has(theme_data, "description")
                                 THEN Get(theme_data, "description").v
                                 ELSE ""])]

\* a leaf step whose record also carries a css_var built from its key,
\* where _merge_figma_data writes value, figma_path and description only
MergeLeafWithCssVar(st, category, color_name, theme, theme_data) ==
  LET token_key ==
        "vita_color_" \o category \o "_" \o color_name \o "_" \o theme
  IN  IF "colors" \notin DOMAIN st.dd
      THEN [st EXCEPT !.raised = TRUE]
      ELSE IF token_key \notin DOMAIN st.dd.colors
      THEN [st EXCEPT !.dd.colors =
              SetItem(@, token_key,
                [value |-> Get(theme_data, "value").v,
                 css_var |-> "--vita-color-" \o category \o "-" \o color_name
                               \o "-" \o theme,
                 figma_path |-> "color." \o category \o "." \o color_name
                                  \o "." \o theme,
                 description |-> IF Has(theme_data, "description")
                                 THEN Get(theme_data, "description").v
                                 ELSE ""])]
      ELSE st

\* the body of the innermost if: a leaf with a "value" field.
\* self.design_data["colors"] raises KeyError on a catalog without colors.
MergeLeaf(st, category, color_name, theme, theme_data) ==
  LET token_key ==
        "vita_color_" \o category \o "_" \o color_name \o "_" \o theme
  IN  IF "colors" \notin DOMAIN st.dd
      THEN [st EXCEPT !.raised = TRUE]
      ELSE IF token_key \notin DOMAIN st.dd.colors
      THEN [st EXCEPT !.dd.colors =
              SetItem(@, token_key,
                [value |-> Get(theme_data, "value").v,
                 figma_path |-> "color." \o category \o "." \o color_name
                                  \o "." \o theme,
                 description |-> IF Has(theme_data, "description")
                                 THEN Get(theme_data, "description").v
                                 ELSE ""])]
      ELSE st

\* for theme, theme_data in color_data.items()
RECURSIVE MergeThemes(_, _, _, _)
MergeThemes(st, category, color_name, items) ==
  IF items = <<>> \/ st.raised THEN st
  ELSE LET theme == Head(items)[1]
           theme_data == Head(items)[2]
           next == IF theme_data.t = "obj" /\ Has(theme_data, "value")
                   THEN MergeLeaf(st, category, color_name, theme, theme_data)
                   ELSE st
       IN  MergeThemes(next, category, color_name, Tail(items))

\* for color_name, color_data in colors.items()
RECURSIVE MergeNames(_, _, _)
MergeNames(st, category, items) ==
  IF items = <<>> \/ st.raised THEN st
  ELSE LET color_name == Head(items)[1]
           color_data == Head(items)[2]
           next == IF color_data.t = "obj"
                   THEN MergeThemes(st, category, color_name, color_data.items)
                   ELSE st
       IN  MergeNames(next, category, Tail(items))

\* for category, colors in figma_colors.items(): colors.items() raises
\* AttributeError when colors is not a mapping, which ends the loops
RECURSIVE MergeCategories(_, _)
MergeCategories(st, items) ==
  IF items = <<>> \/ st.raised THEN st
  ELSE LET category == Head(items)[1]
           colors == Head(items)[2]
           next == IF colors.t = "obj"
                   THEN MergeNames(st, category, colors.items)
                   ELSE [st EXCEPT !.raised = TRUE]
       IN  MergeCategories(next, Tail(items))

\* _merge_figma_data(figma_data) on the catalog dd: the catalog afterwards.
\* When figma_data, or figma_data["tokens"], is not a mapping, the in
\* tests are false or raise TypeError, and figma_colors.items() raises when
\* figma_colors is not a mapping: the catalog is left as it is either way.
MergeFigmaData(dd, figma_data) ==
  IF figma_data.t = "obj" /\ Has(figma_data, "tokens")
  THEN LET tokens == Get(figma_data, "tokens")
       IN  IF tokens.t = "obj" /\ Has(tokens, "color")
           THEN LET figma_colors == Get(tokens, "color")
                IN  IF figma_colors.t = "obj"
                    THEN MergeCategories([dd |-> dd, raised |-> FALSE],
                                         figma_colors.items).dd
                    ELSE dd
           ELSE dd
  ELSE dd

(***************************************************************************)
(* The Catalog Store: _load_design_data.                                   *)
(* A source file is [state, content]: state "absent" (exists() is false),  *)
(* "unreadable" (open or read raises), "readable" and, for the secondary   *)
(* source, "unparseable" (json.load raises) and "json" (content is the     *)
(* loaded document).                                                       *)
(***************************************************************************)
\* if self.design_data: the truth value of the catalog dict
Truthy(dd) == DOMAIN dd # {}

\* the catalog after self.design_data = await self._parse_css_tokens(..),
\* which runs only when css_file.exists()
AfterExtractor(dd, css) ==
  IF css.state # "absent" THEN ParseCssTokens(css) ELSE dd

\* does the with open(figma_file) ... json.load(f) raise
FigmaRaises(figma) == figma.state \in {"unreadable", "unparseable"}

\* _load_design_data on catalog dd with the two source files as they are:
\* the catalog afterwards and what the call did
LoadDesignData(dd, css, figma) ==
  IF Truthy(dd)
  THEN [data |-> dd, built |-> FALSE, css_opened |-> FALSE,
        figma_opened |-> FALSE, extracted |-> dd, raised |-> FALSE]
  ELSE LET dd1 == AfterExtractor(dd, css)
       IN  [data |-> IF figma.state = "absent" THEN dd1
                     ELSE IF FigmaRaises(figma) THEN FallbackData
                     ELSE MergeFigmaData(dd1, figma.content),
            built |-> TRUE,
            css_opened |-> css.state # "absent",
            figma_opened |-> figma.state # "absent",
            extracted |-> dd1,
            raised |-> FigmaRaises(figma)]

(***************************************************************************)
(* The inputs of the model: token-source texts and secondary documents.    *)
(***************************************************************************)
\* declarations and other fragments a token source is made of
PieceBrandLight ==
  <<"-", "-", "v", "i", "t", "a", "-", "c", "o", "l", "o", "r", "-", "b",
  "r", "a", "n", "d", "-", "p", "r", "i", "m", "a", "r", "y", "-", "l",
  "i", "g", "h", "t", ":", " ", "#", "0", "a", "0", ";">>
PieceBgColor ==
  <<"-", "-", "v", "i", "t", "a", "-", "c", "o", "l", "o", "r", "-", "b",
  "g", "-", "c", "o", "l", "o", "r", "-", "d", "a", "r", "k", ":", "#",
  "0", "0", "0", " ", ";">>
PieceDashed ==
  <<"-", "-", "v", "i", "t", "a", "-", "c", "o", "l", "o", "r", "-", "a",
  "-", "b", ":", " ", "1", ";">>
PieceUnderscored ==
  <<"-", "-", "v", "i", "t", "a", "-", "c", "o", "l", "o", "r", "-", "a",
  "_", "b", ":", " ", "2", ";">>
PieceFont ==
  <<"-", "-", "v", "i", "t", "a", "-", "f", "o", "n", "t", "-", "s", "i",
  "z", "e", "-", "b", "a", "s", "e", ":", "\t", "1", "6", "p", "x", ";">>
PieceSpacing ==
  <<"-", "-", "v", "i", "t", "a", "-", "s", "p", "a", "c", "i", "n", "g",
  "-", "4", ":", " ", "1", "r", "e", "m", ";">>
PieceOther ==
  <<"-", "-", "v", "i", "t", "a", "-", "r", "a", "d", "i", "u", "s", "-",
  "s", "m", ":", " ", "2", "p", "x", ";">>
PieceNoColon ==
  <<"-", "-", "v", "i", "t", "a", "-", "c", "o", "l", "o", "r", "-", "x",
  ";">>

Pieces ==
  {PieceBrandLight, PieceBgColor, PieceDashed, PieceUnderscored, PieceFont,
   PieceSpacing, PieceOther, PieceNoColon}

\* the texts of exactly n pieces, one piece a line
RECURSIVE TextsOfLen(_)
TextsOfLen(n) ==
  IF n = 0 THEN {<<>>}
  ELSE {p \o <<"\n">> \o t : p \in Pieces, t \in TextsOfLen(n - 1)}

\* the texts of at most MaxDecls pieces
GeneratedTexts == UNION {TextsOfLen(n) : n \in 0..MaxDecls}

\* the token-source texts of the lifecycle specification
LifecycleTexts ==
  {<<>>,
   PieceBrandLight \o <<"\n">> \o PieceFont \o <<"\n">> \o PieceSpacing,
   PieceBgColor \o <<" ">> \o PieceOther}

\* the primary source file
CssAbsent == [state |-> "absent", content |-> <<>>]
CssUnreadable == [state |-> "unreadable", content |-> <<>>]
Readable(text) == [state |-> "readable", content |-> text]

\* the secondary source file
FigmaAbsent == [state |-> "absent", content |-> JNull]
FigmaUnreadable == [state |-> "unreadable", content |-> JNull]
FigmaUnparseable == [state |-> "unparseable", content |-> JNull]
Json(doc) == [state |-> "json", content |-> doc]

\* a well-formed document: one leaf whose key the text PieceBrandLight also
\* produces, one leaf that is new
DocValid ==
  JObj(<< <<"tokens", JObj(<< <<"color", JObj(<<
    <<"brand", JObj(<<
      <<"primary", JObj(<<
        <<"light", JObj(<< <<"value", JStr("#111")>>,
                           <<"description", JStr("Brand light")>> >>)>>,
        <<"dark", JObj(<< <<"value", JStr("#222")>> >>)>> >>)>> >>)>>
  >>)>> >>)>> >>)

\* a mapping without tokens
DocNoTokens == JObj(<< <<"version", JStr("1")>> >>)

\* not a mapping at all
DocArray == JArr(<<JStr("tokens")>>)

\* a category that is not a mapping, before a well-formed one
DocBadCategory ==
  JObj(<< <<"tokens", JObj(<< <<"color", JObj(<<
    <<"brand", JStr("oops")>>,
    <<"surface", JObj(<<
      <<"bg", JObj(<< <<"light", JObj(<< <<"value", JStr("#fff")>> >>)>>
      >>)>> >>)>>
  >>)>> >>)>> >>)

\* names and leaves that are not mappings, among well-formed ones
DocBadLeaves ==
  JObj(<< <<"tokens", JObj(<< <<"color", JObj(<<
    <<"brand", JObj(<<
      <<"primary", JStr("#123")>>,
      <<"secondary", JObj(<<
        <<"light", JNull>>,
        <<"mid", JObj(<< <<"description", JStr("no value")>> >>)>>,
        <<"dark", JObj(<< <<"value", JStr("#333")>> >>)>> >>)>> >>)>>
  >>)>> >>)>> >>)

WellFormedDocs == {DocValid}
MalformedDocs == {DocNoTokens, DocArray, DocBadCategory, DocBadLeaves}

CssFiles == {CssAbsent, CssUnreadable} \cup {Readable(t) : t \in LifecycleTexts}
FigmaFiles ==
  {FigmaAbsent, FigmaUnreadable, FigmaUnparseable}
    \cup {Json(d) : d \in WellFormedDocs \cup MalformedDocs}

(***************************************************************************)
(* Python values in tool arguments.  A str the program only formats or     *)
(* compares is PyStr; a str the program scans (the code of               *)
(* validate_design) is PyText, a sequence of characters.                   *)
(***************************************************************************)
PyNone == [py |-> "None"]
PyStr(s) == [py |-> "str", s |-> s]
PyText(chars) == [py |-> "text", chars |-> chars]
PyBool(b) == [py |-> "bool", b |-> b]
PyInt(n) == [py |-> "int", n |-> n]
PyDict(items) == [py |-> "dict", items |-> items]
PyList(elems) == [py |-> "list", elems |-> elems]

\* f"{v}" for the scalars
Format(v) ==
  CASE v.py = "str" -> v.s
    [] v.py = "text" -> Str(v.chars)
    [] v.py = "None" -> "None"
    [] v.py = "bool" -> IF v.b THEN "True" ELSE "False"
    [] v.py = "int" -> ToString(v.n)

\* bool(v)
IsTruthy(v) ==
  CASE v.py = "str" -> v.s # ""
    [] v.py = "text" -> v.chars # <<>>
    [] v.py = "None" -> FALSE
    [] v.py = "bool" -> v.b
    [] v.py = "int" -> v.n # 0
    [] v.py = "dict" -> v.items # <<>>
    [] v.py = "list" -> v.elems # <<>>

\* args.get(k, default) on the argument mapping
ArgGet(args, k, default) == IF k \in DOMAIN args THEN args[k] ELSE default

\* d.get(k, default) on a dict value (items in insertion order)
DictGet(d, k, default) ==
  IF \E i \in 1..Len(d.items) : d.items[i][1] = k
  THEN d.items[CHOOSE i \in 1..Len(d.items) : d.items[i][1] = k][2]
  ELSE default

\* what a producer hands back: a text, or the exception it raised.
\* A text is the sequence of its segments (the literal pieces and the
\* interpolated values of the f-strings, in order).
Returns(text) == [status |-> "ok", value |-> text, error |-> ""]
Raises(exception) == [status |-> "error", value |-> <<>>, error |-> exception]

\* The code fence the producers wrap generated markup in: three backquote
\* characters (U+0060) in the source.  The lexer of this language does not
\* take a backquote inside a string, so the segment is spelled out here.
Fence == "<U+0060 U+0060 U+0060>"

\* the text a sequence of segments spells
RECURSIVE Flatten(_)
Flatten(text) == IF text = <<>> THEN "" ELSE Head(text) \o Flatten(Tail(text))

(***************************************************************************)
(* The component generator: _generate_component and _generate_*_html.      *)
(***************************************************************************)
\* a theme attribute that is emitted for auto as for any other theme
ThemeAttrAlways(theme) == " data-theme=\"" \o Format(theme) \o "\""

\* f' data-theme="{theme}"' if theme != "auto" else ""
ThemeAttr(theme) ==
  IF theme # PyStr("auto")
  THEN " data-theme=\"" \o Format(theme) \o "\""
  ELSE ""

\* " ".join([f'{k}="{v}"' for k, v in attributes.items()]), as segments
RECURSIVE AttrsStr(_)
AttrsStr(items) ==
  IF items = <<>> THEN <<>>
  ELSE LET pair == Head(items)[1] \o "=\"" \o Format(Head(items)[2]) \o "\""
       IN  IF Tail(items) = <<>> THEN <<pair>>
           ELSE <<pair, " ">> \o AttrsStr(Tail(items))

\* _generate_button_html: attributes.items() raises on a non-mapping
GenerateButtonHtml(variant, content, attributes, theme) ==
  LET text == IF IsTruthy(content) THEN Format(content) ELSE "Button"
      class_name == IF variant # PyStr("default")
                    THEN "vita-button vita-button-" \o Format(variant)
                    ELSE "vita-button"
  IN  IF attributes.py # "dict"
      THEN Raises("AttributeError: no attribute 'items'")
      ELSE Returns(<<"<button class=\"", class_name, "\"", ThemeAttr(theme),
                     " ">> \o AttrsStr(attributes.items)
                     \o <<">", text, "</button>">>)

\* _generate_input_html: attributes.get raises on a non-mapping
GenerateInputHtml(variant, content, attributes, theme) ==
  LET label_text == IF IsTruthy(content) THEN Format(content) ELSE "Label"
      error_class == IF variant = PyStr("error") THEN " error" ELSE ""
  IN  IF attributes.py # "dict"
      THEN Raises("AttributeError: no attribute 'get'")
      ELSE Returns(
             <<"<div class=\"", "demo-input-group", "\"", ThemeAttr(theme),
               ">\n",
               "    <label class=\"vita-input-label\">", label_text,
               "</label>\n",
               "    <input type=\"",
               Format(DictGet(attributes, "type", PyStr("text"))),
               "\" class=\"", "vita-input" \o error_class,
               "\" placeholder=\"",
               Format(DictGet(attributes, "placeholder",
                              PyStr("Enter value"))),
               "\">\n", "</div>">>)

\* _generate_card_html: attributes.get raises on a non-mapping
GenerateCardHtml(variant, content, attributes, theme) ==
  LET text == IF IsTruthy(content) THEN Format(content)
              ELSE "Card content goes here..."
  IN  IF attributes.py # "dict"
      THEN Raises("AttributeError: no attribute 'get'")
      ELSE Returns(
             <<"<div class=\"", "vita-card", "\"", ThemeAttr(theme), ">\n",
               "    <h3 class=\"vita-text-headline-small\">",
               Format(DictGet(attributes, "title", PyStr("Card Title"))),
               "</h3>\n",
               "    <p class=\"vita-text-body-medium\">", text, "</p>\n",
               "</div>">>)

\* _generate_badge_html: does not touch attributes
GenerateBadgeHtml(variant, content, attributes, theme) ==
  LET text == IF IsTruthy(content) THEN Format(content) ELSE "Badge"
      class_name == IF variant # PyStr("default")
                    THEN "vita-status-badge vita-status-badge-"
                           \o Format(variant)
                    ELSE "vita-status-badge"
  IN  Returns(<<"<span class=\"", class_name, "\"", ThemeAttr(theme), ">",
                text, "</span>">>)

\* _generate_layout_html: attributes.get raises on a non-mapping
GenerateLayoutHtml(variant, content, attributes, theme) ==
  IF attributes.py # "dict"
  THEN Raises("AttributeError: no attribute 'get'")
  ELSE Returns(
         <<"<div class=\"", "vita-container", "\"", ThemeAttr(theme),
           ">\n",
           "    <div class=\"grid grid-",
           Format(DictGet(attributes, "columns", PyInt(2))), "\">\n",
           "        <div class=\"vita-card\">\n",
           "            <h3>Section 1</h3>\n",
           "            <p>Content here...</p>\n",
           "        </div>\n",
           "        <div class=\"vita-card\">\n",
           "            <h3>Section 2</h3>\n",
           "            <p>Content here...</p>\n",
           "        </div>\n",
           "    </div>\n",
           "</div>">>)

\* the component types of the if/elif chain
ComponentTypes == {"button", "input", "card", "badge", "layout"}

\* the if/elif chain over component_type, for the types it knows
ComponentHtml(component_type, variant, content, attributes, theme) ==
  CASE component_type = PyStr("button") ->
         GenerateButtonHtml(variant, content, attributes, theme)
    [] component_type = PyStr("input") ->
         GenerateInputHtml(variant, content, attributes, theme)
    [] component_type = PyStr("card") ->
         GenerateCardHtml(variant, content, attributes, theme)
    [] component_type = PyStr("badge") ->
         GenerateBadgeHtml(variant, content, attributes, theme)
    [] component_type = PyStr("layout") ->
         GenerateLayoutHtml(variant, content, attributes, theme)

\* a generator that raises on a component type outside the chain, where
\* _generate_component has its else branch
GenerateComponentRaising(args) ==
  LET component_type == ArgGet(args, "component_type", PyNone)
      variant == ArgGet(args, "variant", PyStr("default"))
      theme == ArgGet(args, "theme", PyStr("auto"))
      content == ArgGet(args, "content", PyStr(""))
      attributes == ArgGet(args, "attributes", PyDict(<<>>))
  IN  IF component_type.py = "str" /\ component_type.s \in ComponentTypes
      THEN (LET html == ComponentHtml(component_type, variant, content,
                                      attributes, theme)
            IN  IF html.status = "ok"
                THEN Returns(<<"Generated ", Format(component_type),
                               " component:\n\n", Fence, "html\n">>
                               \o html.value \o <<"\n", Fence>>)
                ELSE html)
      ELSE Raises("ValueError: Unknown component type")

\* _generate_component(args)
GenerateComponent(args) ==
  LET component_type == ArgGet(args, "component_type", PyNone)
      variant == ArgGet(args, "variant", PyStr("default"))
      theme == ArgGet(args, "theme", PyStr("auto"))
      content == ArgGet(args, "content", PyStr(""))
      attributes == ArgGet(args, "attributes", PyDict(<<>>))
  IN  IF component_type.py = "str" /\ component_type.s \in ComponentTypes
      THEN (LET html == ComponentHtml(component_type, variant, content,
                                      attributes, theme)
            IN  IF html.status = "ok"
                THEN Returns(<<"Generated ", Format(component_type),
                               " component:\n\n", Fence, "html\n">>
                               \o html.value \o <<"\n", Fence>>)
                ELSE html)
      ELSE Returns(<<"Error: Unknown component type '",
                     Format(component_type), "'">>)

(***************************************************************************)
(* The layout generator: _create_layout and _generate_complete_layout.     *)
(***************************************************************************)
\* _generate_dashboard_layout: the fixed page body, whatever components is
DashboardLayout ==
  "    <div class=\"vita-container\">\n"
  \o "        <header class=\"vita-card\" style=\"margin-bottom: var(--vita-spacing-6);\">\n"
  \o "            <h1 class=\"vita-text-display-medium\">Dashboard</h1>\n"
  \o "            <p class=\"vita-text-body-large\">Welcome to your ViTA dashboard</p>\n"
  \o "        </header>\n"
  \o "        \n"
  \o "        <div class=\"grid grid-4\">\n"
  \o "            <div class=\"vita-card\" style=\"text-align: center;\">\n"
  \o "                <h3 class=\"vita-text-headline-small\">Active</h3>\n"
  \o "                <div class=\"vita-text-display-small\" style=\"color: var(--vita-color-semantic-success);\">24</div>\n"
  \o "                <span class=\"vita-status-badge vita-status-badge-success\">Running</span>\n"
  \o "            </div>\n"
  \o "            <div class=\"vita-card\" style=\"text-align: center;\">\n"
  \o "                <h3 class=\"vita-text-headline-small\">Pending</h3>\n"
  \o "                <div class=\"vita-text-display-small\" style=\"color: var(--vita-color-semantic-warning);\">8</div>\n"
  \o "                <span class=\"vita-status-badge vita-status-badge-warning\">Review</span>\n"
  \o "            </div>\n"
  \o "            <div class=\"vita-card\" style=\"text-align: center;\">\n"
  \o "                <h3 class=\"vita-text-headline-small\">Completed</h3>\n"
  \o "                <div class=\"vita-text-display-small\" style=\"color: var(--vita-color-brand-primary);\">156</div>\n"
  \o "                <span class=\"vita-status-badge vita-status-badge-success\">Done</span>\n"
  \o "            </div>\n"
  \o "            <div class=\"vita-card\" style=\"text-align: center;\">\n"
  \o "                <h3 class=\"vita-text-headline-small\">Errors</h3>\n"
  \o "                <div class=\"vita-text-display-small\" style=\"color: var(--vita-color-semantic-error);\">2</div>\n"
  \o "                <span class=\"vita-status-badge vita-status-badge-error\">Attention</span>\n"
  \o "            </div>\n"
  \o "        </div>\n"
  \o "    </div>"

\* _generate_form_layout: the fixed page body, whatever components is
FormLayout ==
  "    <div class=\"vita-container-content\">\n"
  \o "        <div class=\"vita-card\" style=\"max-width: 500px; margin: 0 auto;\">\n"
  \o "            <h2 class=\"vita-text-headline-large\">Contact Form</h2>\n"
  \o "            <form style=\"margin-top: var(--vita-spacing-6);\">\n"
  \o "                <div class=\"demo-input-group\">\n"
  \o "                    <label class=\"vita-input-label\">Full Name *</label>\n"
  \o "                    <input type=\"text\" class=\"vita-input\" placeholder=\"Enter your full name\" required>\n"
  \o "                </div>\n"
  \o "                \n"
  \o "                <div class=\"demo-input-group\">\n"
  \o "                    <label class=\"vita-input-label\">Email Address *</label>\n"
  \o "                    <input type=\"email\" class=\"vita-input\" placeholder=\"Enter your email\" required>\n"
  \o "                </div>\n"
  \o "                \n"
  \o "                <div class=\"demo-input-group\">\n"
  \o "                    <label class=\"vita-input-label\">Message</label>\n"
  \o "                    <textarea class=\"vita-input\" rows=\"4\" placeholder=\"Enter your message\"></textarea>\n"
  \o "                </div>\n"
  \o "                \n"
  \o "                <div style=\"display: flex; gap: var(--vita-spacing-3); margin-top: var(--vita-spacing-6);\">\n"
  \o "                    <button type=\"submit\" class=\"vita-button vita-button-primary\">Send Message</button>\n"
  \o "                    <button type=\"reset\" class=\"vita-button vita-button-secondary\">Clear</button>\n"
  \o "                </div>\n"
  \o "            </form>\n"
  \o "        </div>\n"
  \o "    </div>"

\* _generate_landing_layout: the fixed page body, whatever components is
LandingLayout ==
  "    <div class=\"vita-container\">\n"
  \o "        <header style=\"text-align: center; padding: var(--vita-spacing-8) 0;\">\n"
  \o "            <h1 class=\"vita-text-display-large\">Welcome to ViTA</h1>\n"
  \o "            <p class=\"vita-text-headline-medium\" style=\"margin-top: var(--vita-spacing-4);\">\n"
  \o "                Powerful design system for modern applications\n"
  \o "            </p>\n"
  \o "            <div style=\"margin-top: var(--vita-spacing-6);\">\n"
  \o "                <button class=\"vita-button vita-button-primary vita-button-action\">Get Started</button>\n"
  \o "                <button class=\"vita-button vita-button-secondary vita-button-action\" style=\"margin-left: var(--vita-spacing-3);\">Learn More</button>\n"
  \o "            </div>\n"
  \o "        </header>\n"
  \o "        \n"
  \o "        <div class=\"grid grid-3\" style=\"margin-top: var(--vita-spacing-8);\">\n"
  \o "            <div class=\"vita-card\" style=\"text-align: center;\">\n"
  \o "                <h3 class=\"vita-text-headline-small\">Fast Development</h3>\n"
  \o "                <p class=\"vita-text-body-medium\">Build interfaces quickly with pre-designed components</p>\n"
  \o "            </div>\n"
  \o "            <div class=\"vita-card\" style=\"text-align: center;\">\n"
  \o "                <h3 class=\"vita-text-headline-small\">Consistent Design</h3>\n"
  \o "                <p class=\"vita-text-body-medium\">Maintain visual consistency across all your applications</p>\n"
  \o "            </div>\n"
  \o "            <div class=\"vita-card\" style=\"text-align: center;\">\n"
  \o "                <h3 class=\"vita-text-headline-small\">Accessible</h3>\n"
  \o "                <p class=\"vita-text-body-medium\">WCAG 2.1 AA compliant components out of the box</p>\n"
  \o "            </div>\n"
  \o "        </div>\n"
  \o "    </div>"

\* _generate_profile_layout: the fixed page body, whatever components is
ProfileLayout ==
  "    <div class=\"vita-container\">\n"
  \o "        <div class=\"grid grid-3\">\n"
  \o "            <div class=\"vita-card\">\n"
  \o "                <div style=\"text-align: center;\">\n"
  \o "                    <div style=\"width: 80px; height: 80px; background: var(--vita-color-brand-primary); border-radius: 50%; margin: 0 auto var(--vita-spacing-4);\"></div>\n"
  \o "                    <h3 class=\"vita-text-headline-small\">John Doe</h3>\n"
  \o "                    <p class=\"vita-text-body-medium\">Senior Developer</p>\n"
  \o "                    <button class=\"vita-button vita-button-edit\" style=\"margin-top: var(--vita-spacing-4);\">Edit Profile</button>\n"
  \o "                </div>\n"
  \o "            </div>\n"
  \o "            \n"
  \o "            <div style=\"grid-column: span 2;\">\n"
  \o "                <div class=\"vita-card\">\n"
  \o "                    <h3 class=\"vita-text-headline-small\">Profile Information</h3>\n"
  \o "                    <div style=\"margin-top: var(--vita-spacing-4);\">\n"
  \o "                        <div class=\"demo-input-group\">\n"
  \o "                            <label class=\"vita-input-label\">Email</label>\n"
  \o "                            <input type=\"email\" class=\"vita-input\" value=\"john.doe@example.com\">\n"
  \o "                        </div>\n"
  \o "                        <div class=\"demo-input-group\">\n"
  \o "                            <label class=\"vita-input-label\">Phone</label>\n"
  \o "                            <input type=\"tel\" class=\"vita-input\" value=\"+1 (555) 123-4567\">\n"
  \o "                        </div>\n"
  \o "                        <div class=\"demo-input-group\">\n"
  \o "                            <label class=\"vita-input-label\">Bio</label>\n"
  \o "                            <textarea class=\"vita-input\" rows=\"3\">Passionate developer with 5+ years of experience...</textarea>\n"
  \o "                        </div>\n"
  \o "                    </div>\n"
  \o "                </div>\n"
  \o "            </div>\n"
  \o "        </div>\n"
  \o "    </div>"

\* _generate_settings_layout: the fixed page body, whatever components is
SettingsLayout ==
  "    <div class=\"vita-container\">\n"
  \o "        <h1 class=\"vita-text-display-medium\">Settings</h1>\n"
  \o "        \n"
  \o "        <div style=\"margin-top: var(--vita-spacing-6);\">\n"
  \o "            <div class=\"vita-card\">\n"
  \o "                <h3 class=\"vita-text-headline-small\">Appearance</h3>\n"
  \o "                <div style=\"margin-top: var(--vita-spacing-4);\">\n"
  \o "                    <div class=\"demo-input-group\">\n"
  \o "                        <label class=\"vita-input-label\">Theme</label>\n"
  \o "                        <select class=\"vita-input\">\n"
  \o "                            <option>Light</option>\n"
  \o "                            <option>Dark</option>\n"
  \o "                            <option>Auto</option>\n"
  \o "                        </select>\n"
  \o "                    </div>\n"
  \o "                    <div style=\"display: flex; align-items: center; margin-top: var(--vita-spacing-3);\">\n"
  \o "                        <input type=\"checkbox\" id=\"animations\" style=\"margin-right: var(--vita-spacing-2);\">\n"
  \o "                        <label for=\"animations\" class=\"vita-text-body-medium\">Enable animations</label>\n"
  \o "                    </div>\n"
  \o "                </div>\n"
  \o "            </div>\n"
  \o "            \n"
  \o "            <div class=\"vita-card\" style=\"margin-top: var(--vita-spacing-4);\">\n"
  \o "                <h3 class=\"vita-text-headline-small\">Notifications</h3>\n"
  \o "                <div style=\"margin-top: var(--vita-spacing-4);\">\n"
  \o "                    <div style=\"display: flex; align-items: center; margin-bottom: var(--vita-spacing-3);\">\n"
  \o "                        <input type=\"checkbox\" id=\"email-notif\" checked style=\"margin-right: var(--vita-spacing-2);\">\n"
  \o "                        <label for=\"email-notif\" class=\"vita-text-body-medium\">Email notifications</label>\n"
  \o "                    </div>\n"
  \o "                    <div style=\"display: flex; align-items: center; margin-bottom: var(--vita-spacing-3);\">\n"
  \o "                        <input type=\"checkbox\" id=\"push-notif\" style=\"margin-right: var(--vita-spacing-2);\">\n"
  \o "                        <label for=\"push-notif\" class=\"vita-text-body-medium\">Push notifications</label>\n"
  \o "                    </div>\n"
  \o "                </div>\n"
  \o "            </div>\n"
  \o "            \n"
  \o "            <div style=\"margin-top: var(--vita-spacing-6);\">\n"
  \o "                <button class=\"vita-button vita-button-primary\">Save Changes</button>\n"
  \o "                <button class=\"vita-button vita-button-secondary\" style=\"margin-left: var(--vita-spacing-3);\">Cancel</button>\n"
  \o "            </div>\n"
  \o "        </div>\n"
  \o "    </div>"

\* the layout types of the if/elif chain and their bodies
LayoutBody ==
  ("dashboard" :> DashboardLayout)
  @@ ("form" :> FormLayout)
  @@ ("landing" :> LandingLayout)
  @@ ("profile" :> ProfileLayout)
  @@ ("settings" :> SettingsLayout)

\* body_content of the final else
UnknownLayoutBody ==
  "<div class=\"vita-container\"><h1>Unknown layout type</h1></div>"

\* layout_type.title(), for the layout_type strings of the model: the first
\* letter of every run of letters in upper case, the other letters in lower
TitleCase ==
  ("dashboard" :> "Dashboard")
  @@ ("form" :> "Form")
  @@ ("landing" :> "Landing")
  @@ ("profile" :> "Profile")
  @@ ("settings" :> "Settings")
  @@ ("gallery" :> "Gallery")
  @@ ("DASHBOARD" :> "Dashboard")
  @@ ("sign-in page" :> "Sign-In Page")
  @@ ("" :> "")

\* theme_attr of the page shell: a theme attribute is always there
ShellThemeAttr(theme) ==
  IF theme # PyStr("auto")
  THEN "data-theme=\"" \o Format(theme) \o "\""
  ELSE "data-theme=\"light\""

\* head_section, as segments
HeadSection(layout_type, theme) ==
  <<"<!DOCTYPE html>\n<html lang=\"en\" ", ShellThemeAttr(theme),
    ">\n<head>\n"
    \o "    <meta charset=\"UTF-8\">\n"
    \o "    <meta name=\"viewport\" content=\"width=device-width, initial-scale=1.0\">\n"
    \o "    <title>ViTA Design System - ",
    TitleCase[layout_type.s],
    "</title>\n"
    \o "    <link rel=\"stylesheet\" href=\"./DESIGN_TOKENS.css\">\n"
    \o "    <link href=\"https://fonts.googleapis.com/css2?family=Heebo:wght@400;500;600;700&family=Poppins:wght@400;500;600;700;800;900&display=swap\" rel=\"stylesheet\">\n"
    \o "    <link href=\"https://fonts.googleapis.com/icon?family=Material+Icons\" rel=\"stylesheet\">\n"
    \o "</head>\n<body>">>

\* footer_section
FooterSection == "</body>\n</html>"

\* body_content: the if/elif chain over layout_type
BodyContent(layout_type) ==
  IF layout_type.s \in DOMAIN LayoutBody
  THEN LayoutBody[layout_type.s]
  ELSE UnknownLayoutBody

\* a page builder that raises on a layout type outside the chain, where
\* _generate_complete_layout has its else branch
GenerateCompleteLayoutStrict(layout_type, components, theme, responsive) ==
  IF layout_type.py # "str"
  THEN Raises("AttributeError: no attribute 'title'")
  ELSE IF layout_type.s \notin DOMAIN LayoutBody
  THEN Raises("ValueError: Unknown layout type")
  ELSE Returns(HeadSection(layout_type, theme)
                 \o <<"\n", BodyContent(layout_type), "\n", FooterSection>>)

\* a page builder that leaves the viewport line of the head out when
\* responsive is false, where _generate_complete_layout does not read it
GenerateCompleteLayoutResponsive(layout_type, components, theme, responsive) ==
  IF layout_type.py # "str"
  THEN Raises("AttributeError: no attribute 'title'")
  ELSE Returns((IF IsTruthy(responsive)
                THEN HeadSection(layout_type, theme)
                ELSE [HeadSection(layout_type, theme) EXCEPT ![3] =
                        ">\n<head>\n    <meta charset=\"UTF-8\">\n"
                          \o "    <title>ViTA Design System - "])
                 \o <<"\n", BodyContent(layout_type), "\n", FooterSection>>)

\* _generate_complete_layout: layout_type.title() raises AttributeError when
\* layout_type is not a str; components and responsive are not read
GenerateCompleteLayout(layout_type, components, theme, responsive) ==
  IF layout_type.py # "str"
  THEN Raises("AttributeError: no attribute 'title'")
  ELSE Returns(HeadSection(layout_type, theme)
                 \o <<"\n", BodyContent(layout_type), "\n", FooterSection>>)

\* _create_layout(args)
CreateLayout(args) ==
  LET layout_type == ArgGet(args, "layout_type", PyNone)
      components == ArgGet(args, "components", PyList(<<>>))
      theme == ArgGet(args, "theme", PyStr("auto"))
      responsive == ArgGet(args, "responsive", PyBool(TRUE))
      html == GenerateCompleteLayout(layout_type, components, theme,
                                     responsive)
  IN  IF html.status = "ok"
      THEN Returns(<<"Generated ", Format(layout_type), " layout:\n\n",
                     Fence, "html\n">> \o html.value \o <<"\n", Fence>>)
      ELSE html

(***************************************************************************)
(* The Validator: _validate_design.  The code is scanned character by      *)
(* character.  Each finding is [mark, text, count, names]: the mark names  *)
(* the symbol the message opens with (check, cross, warning), and a        *)
(* counting finding carries the number of matches and the set of distinct  *)
(* matches the message lists.                                              *)
(***************************************************************************)
\* the characters of the class [\w-] that texts of the model are made of
WordOrDash ==
  {"a", "b", "c", "d", "e", "f", "g", "h", "i", "j", "k", "l", "m", "n", "o",
   "p", "q", "r", "s", "t", "u", "v", "w", "x", "y", "z", "A", "B", "C", "D",
   "E", "F", "G", "H", "I", "J", "K", "L", "M", "N", "O", "P", "Q", "R", "S",
   "T", "U", "V", "W", "X", "Y", "Z", "0", "1", "2", "3", "4", "5", "6", "7",
   "8", "9", "_", "-"}

\* sub in s
Contains(s, sub) ==
  \E i \in 1..(Len(s) - Len(sub) + 1) : SubSeq(s, i, i + Len(sub) - 1) = sub

\* the last position of the run of [\w-] characters that starts at i
\* (i - 1 when s[i] is not one)
RECURSIVE RunEnd(_, _)
RunEnd(s, i) ==
  IF i <= Len(s) /\ s[i] \in WordOrDash THEN RunEnd(s, i + 1) ELSE i - 1

ClassHead == <<"v", "i", "t", "a", "-">>
TokenHead == <<"v", "a", "r", "(", "-", "-", "v", "i", "t", "a", "-">>

\* re.findall(r'vita-[\w-]+', code) from position i
RECURSIVE FindClassesFrom(_, _)
FindClassesFrom(code, i) ==
  IF i > Len(code) THEN <<>>
  ELSE LET n == Len(ClassHead)
           e == RunEnd(code, i + n)
       IN  IF /\ i + n - 1 <= Len(code)
              /\ SubSeq(code, i, i + n - 1) = ClassHead
              /\ e >= i + n
           THEN <<Str(SubSeq(code, i, e))>> \o FindClassesFrom(code, e + 1)
           ELSE FindClassesFrom(code, i + 1)

\* re.findall(r'var\(--vita-[\w-]+\)', code) from position i
RECURSIVE FindTokensFrom(_, _)
FindTokensFrom(code, i) ==
  IF i > Len(code) THEN <<>>
  ELSE LET n == Len(TokenHead)
           e == RunEnd(code, i + n)
       IN  IF /\ i + n - 1 <= Len(code)
              /\ SubSeq(code, i, i + n - 1) = TokenHead
              /\ e >= i + n
              /\ e + 1 <= Len(code)
              /\ code[e + 1] = ")"
           THEN <<Str(SubSeq(code, i, e + 1))>>
                  \o FindTokensFrom(code, e + 2)
           ELSE FindTokensFrom(code, i + 1)

\* set(matches)
Distinct(matches) == {matches[i] : i \in 1..Len(matches)}

Finding(mark, text) == [mark |-> mark, text |-> text, count |-> 0, names |-> {}]
CountFinding(mark, text, matches) ==
  [mark |-> mark, text |-> text, count |-> Len(matches),
   names |-> Distinct(matches)]

\* the class finding
ClassFinding(code) ==
  LET vita_classes == FindClassesFrom(code, 1)
  IN  IF vita_classes = <<>>
      THEN Finding("cross", "No ViTA design system classes found")
      ELSE CountFinding("check", "Found {count} ViTA classes: {names}",
                        vita_classes)

\* the theme-attribute finding
ThemeFinding(code) ==
  IF Contains(code, <<"d", "a", "t", "a", "-", "t", "h", "e", "m", "e", "=">>)
  THEN Finding("check", "Theme attribute found")
  ELSE Finding("warning",
               "No theme attribute found (recommended: data-theme='light' or 'dark')")

\* the accessibility findings, each one only when its check is positive
AccessibilityFindings(code) ==
  (IF Contains(code, <<"a", "l", "t", "=">>)
        /\ Contains(code, <<"i", "m", "g">>)
   THEN <<Finding("check", "Alt text found for images")>> ELSE <<>>)
  \o (IF Contains(code, <<"a", "r", "i", "a", "-">>)
      THEN <<Finding("check", "ARIA attributes found")>> ELSE <<>>)
  \o (IF Contains(code, <<"<", "l", "a", "b", "e", "l">>)
            /\ Contains(code, <<"f", "o", "r", "=">>)
      THEN <<Finding("check", "Proper form labels found")>> ELSE <<>>)

\* a token finding that reports the count whatever it is, where
\* _validate_design tests tokens_used
TokenFindingAlways(code) ==
  CountFinding("check", "Using {count} design tokens: {names}",
               FindTokensFrom(code, 1))

\* the token finding
TokenFinding(code) ==
  LET tokens_used == FindTokensFrom(code, 1)
  IN  IF tokens_used # <<>>
      THEN CountFinding("check", "Using {count} design tokens: {names}",
                        tokens_used)
      ELSE Finding("warning",
                   "No design tokens (CSS custom properties) found")

\* a validator that stops at its first negative finding, where
\* _validate_design goes on to the next check whatever the outcome
ValidateDesignShortCircuit(args) ==
  LET code == ArgGet(args, "code", PyText(<<>>))
      check_accessibility == ArgGet(args, "check_accessibility", PyBool(TRUE))
  IN  IF code.py # "text"
      THEN Raises("TypeError: expected string or bytes-like object")
      ELSE Returns(
             [header |-> "Design Validation Results:\n\n",
              findings |->
                IF ClassFinding(code.chars).mark # "check"
                THEN <<ClassFinding(code.chars)>>
                ELSE IF ThemeFinding(code.chars).mark # "check"
                THEN <<ClassFinding(code.chars), ThemeFinding(code.chars)>>
                ELSE <<ClassFinding(code.chars), ThemeFinding(code.chars)>>
                       \o (IF IsTruthy(check_accessibility)
                           THEN AccessibilityFindings(code.chars) ELSE <<>>)
                       \o <<TokenFinding(code.chars)>>])

\* _validate_design(args): re.findall raises TypeError when code is no str
ValidateDesign(args) ==
  LET code == ArgGet(args, "code", PyText(<<>>))
      check_accessibility == ArgGet(args, "check_accessibility", PyBool(TRUE))
  IN  IF code.py # "text"
      THEN Raises("TypeError: expected string or bytes-like object")
      ELSE Returns(
             [header |-> "Design Validation Results:\n\n",
              findings |->
                <<ClassFinding(code.chars), ThemeFinding(code.chars)>>
                  \o (IF IsTruthy(check_accessibility)
                      THEN AccessibilityFindings(code.chars) ELSE <<>>)
                  \o <<TokenFinding(code.chars)>>])

(***************************************************************************)
(* The token lookup: _get_token_value.                                     *)
(***************************************************************************)
\* the records of catalog dd whose css_var is "--" + token_name, as
\* <<category, key>> pairs; every value of design_data is a mapping, and so
\* is every value in it
TokenMatches(dd, token_name) ==
  {ck \in UNION {{<<c, k>> : k \in DOMAIN dd[c]} : c \in DOMAIN dd} :
     /\ "css_var" \in DOMAIN dd[ck[1]][ck[2]]
     /\ dd[ck[1]][ck[2]].css_var = "--" \o Format(token_name)}

\* a lookup that folds a supplied theme other than light into the name it
\* looks for, where _get_token_value reads theme and does not use it
GetTokenValueThemed(dd, args) ==
  LET token_name == ArgGet(args, "token_name", PyStr(""))
      theme == ArgGet(args, "theme", PyStr("light"))
      found == IF theme = PyStr("light") THEN TokenMatches(dd, token_name)
               ELSE TokenMatches(dd, PyStr(Format(token_name) \o "-"
                                             \o Format(theme)))
  IN  IF found # {}
      THEN LET ck == CHOOSE m \in found : TRUE
               token_data == dd[ck[1]][ck[2]]
           IN  Returns(<<"Token: ", Format(token_name), "\nValue: ",
                         token_data.value, "\nDescription: ",
                         token_data.description>>)
      ELSE Returns(<<"Token '", Format(token_name),
                     "' not found in ViTA design system">>)

\* _get_token_value(args) on catalog dd: the first match in iteration order;
\* theme is read and not used
GetTokenValue(dd, args) ==
  LET token_name == ArgGet(args, "token_name", PyStr(""))
      theme == ArgGet(args, "theme", PyStr("light"))
      found == TokenMatches(dd, token_name)
  IN  IF found # {}
      THEN LET ck == CHOOSE m \in found : TRUE
               token_data == dd[ck[1]][ck[2]]
           IN  Returns(<<"Token: ", Format(token_name), "\nValue: ",
                         token_data.value, "\nDescription: ",
                         token_data.description>>)
      ELSE Returns(<<"Token '", Format(token_name),
                     "' not found in ViTA design system">>)

(***************************************************************************)
(* State.                                                                  *)
(***************************************************************************)
VARIABLES
  css_file,      \* DESIGN_TOKENS.css as the file system holds it
  figma_file,    \* FIGMA_DESIGN_TOKENS.json as the file system holds it
  env_changes,   \* how often the environment has changed a source file
  design_data,   \* self.design_data
  loaded,        \* has a _load_design_data call completed
  css_reads,     \* how often the primary source was opened
  figma_reads,   \* how often the secondary source was opened
  last_build,    \* the latest load that passed the guard: the secondary
                 \* source it met, the token records the Extractor step
                 \* left, whether the load raised
  result,        \* the outcome of the latest operation
  tasks          \* the handlers the event loop runs as tasks: the position
                 \* of each one in its code, its request, and the one that
                 \* has control

vars ==
  <<css_file, figma_file, env_changes, design_data, loaded, css_reads,
    figma_reads, last_build, result, tasks>>

\* the token records of a catalog: its colors, typography and spacing
TokenCategories == {"colors", "typography", "spacing"}
TokenRecords(dd) == [c \in TokenCategories \cap DOMAIN dd |-> dd[c]]

NoBuild ==
  [ran |-> FALSE, figma |-> FigmaAbsent, extracted |-> EmptyDict,
   raised |-> FALSE]

\* the arguments of a tool call as the transport hands them over: None, or
\* a mapping
NoArguments == [given |-> FALSE, map |-> EmptyDict]
Arguments(map) == [given |-> TRUE, map |-> map]

\* result: the operation, its argument (URI or tool name) and arguments, the
\* calls it made in order, and what it handed back (status "ok" with the
\* value, or status "error" with the exception raised)
NoResult ==
  [op |-> "none", arg |-> "", arguments |-> NoArguments, calls |-> <<>>,
   status |-> "ok", value |-> "", error |-> ""]

\* largest number of handlers in flight at once
MaxHandlers == 2
Handlers == 1..MaxHandlers

\* no handler has been started: pc is the position of each handler (idle
\* before it starts, done when it has returned), current is the handler
\* that has control (0 when the event loop has it)
NoTasks ==
  [pc |-> [h \in Handlers |-> "idle"],
   request |-> [h \in Handlers |-> [op |-> "none", arg |-> ""]],
   current |-> 0]

\* the state __init__ leaves: design_data = {}
InitProgram ==
  /\ tasks = NoTasks
  /\ env_changes = 0
  /\ design_data = EmptyDict
  /\ loaded = FALSE
  /\ css_reads = 0
  /\ figma_reads = 0
  /\ last_build = NoBuild
  /\ result = NoResult

Init ==
  /\ css_file \in CssFiles
  /\ figma_file \in FigmaFiles
  /\ InitProgram

\* the effect of one _load_design_data call on the state, as l reports it
LoadEffect(l) ==
  /\ css_reads + (IF l.css_opened THEN 1 ELSE 0) <= MaxReads
  /\ figma_reads + (IF l.figma_opened THEN 1 ELSE 0) <= MaxReads
  /\ design_data' = l.data
  /\ loaded' = TRUE
  /\ css_reads' = css_reads + (IF l.css_opened THEN 1 ELSE 0)
  /\ figma_reads' = figma_reads + (IF l.figma_opened THEN 1 ELSE 0)
  /\ last_build' =
       IF l.built
       THEN [ran |-> TRUE, figma |-> figma_file,
             extracted |-> TokenRecords(l.extracted), raised |-> l.raised]
       ELSE last_build

\* await self._load_design_data(), called on its own
Load ==
  /\ LoadEffect(LoadDesignData(design_data, css_file, figma_file))
  /\ result' = [NoResult EXCEPT !.op = "load",
                                !.calls = <<"_load_design_data">>]
  /\ UNCHANGED <<css_file, figma_file, env_changes, tasks>>

(***************************************************************************)
(* The listings: handle_list_resources and handle_list_tools.  Neither     *)
(* calls _load_design_data.                                                *)
(***************************************************************************)
\* a listing that also advertises a shadows resource, which the chain of
\* handle_read_resource does not know
ListedResourceUrisWithShadows ==
  {"vita://tokens/colors", "vita://tokens/typography",
   "vita://tokens/spacing", "vita://tokens/shadows",
   "vita://components/buttons", "vita://components/inputs",
   "vita://components/cards", "vita://themes/light", "vita://themes/dark",
   "vita://guidelines/accessibility", "vita://examples/layouts"}

\* the uri of every Resource handle_list_resources returns
ListedResourceUris ==
  {"vita://tokens/colors", "vita://tokens/typography",
   "vita://tokens/spacing", "vita://components/buttons",
   "vita://components/inputs", "vita://components/cards",
   "vita://themes/light", "vita://themes/dark",
   "vita://guidelines/accessibility", "vita://examples/layouts"}

\* the name of every Tool handle_list_tools returns
ListedToolNames ==
  {"generate_component", "create_layout", "validate_design",
   "get_token_value"}

ListResources ==
  /\ result' = [NoResult EXCEPT !.op = "list_resources",
                                !.value = ListedResourceUris]
  /\ UNCHANGED <<css_file, figma_file, env_changes, design_data, loaded,
                 css_reads, figma_reads, last_build, tasks>>

ListTools ==
  /\ result' = [NoResult EXCEPT !.op = "list_tools",
                                !.value = ListedToolNames]
  /\ UNCHANGED <<css_file, figma_file, env_changes, design_data, loaded,
                 css_reads, figma_reads, last_build, tasks>>

(***************************************************************************)
(* The Resource Resolver: handle_read_resource.                            *)
(***************************************************************************)
\* json.dumps(x, indent=2): the text that serializes x
JsonDumps(x) == [json |-> x]

\* the if/elif chain: the catalog path each URI is answered from
ResourcePath ==
  ("vita://tokens/colors" :> <<"colors">>)
  @@ ("vita://tokens/typography" :> <<"typography">>)
  @@ ("vita://tokens/spacing" :> <<"spacing">>)
  @@ ("vita://components/buttons" :> <<"components", "buttons">>)
  @@ ("vita://components/inputs" :> <<"components", "inputs">>)
  @@ ("vita://components/cards" :> <<"components", "cards">>)
  @@ ("vita://themes/light" :> <<"themes", "light">>)
  @@ ("vita://themes/dark" :> <<"themes", "dark">>)
  @@ ("vita://guidelines/accessibility" :> <<"guidelines", "accessibility">>)
  @@ ("vita://examples/layouts" :> <<"examples", "layouts">>)

\* self.design_data.get(a, {}) or self.design_data.get(a, {}).get(b, {})
Slice(dd, path) ==
  IF Len(path) = 1 THEN GetOrEmpty(dd, path[1])
  ELSE GetOrEmpty(GetOrEmpty(dd, path[1]), path[2])

\* a resolver that subscripts the catalog, self.design_data[a][b], where
\* handle_read_resource uses get with a default
ReadResourceOutcomeSubscripting(dd, uri) ==
  IF uri \in DOMAIN ResourcePath
  THEN IF /\ ResourcePath[uri][1] \in DOMAIN dd
          /\ Len(ResourcePath[uri]) = 2
               => ResourcePath[uri][2] \in DOMAIN dd[ResourcePath[uri][1]]
       THEN [status |-> "ok",
             value |-> JsonDumps(Slice(dd, ResourcePath[uri])), error |-> ""]
       ELSE [status |-> "error", value |-> "", error |-> "KeyError"]
  ELSE [status |-> "error", value |-> "",
        error |-> "ValueError: Unknown resource URI: " \o uri]

\* the body of handle_read_resource after the load, on catalog dd
ReadResourceOutcome(dd, uri) ==
  IF uri \in DOMAIN ResourcePath
  THEN [status |-> "ok", value |-> JsonDumps(Slice(dd, ResourcePath[uri])),
        error |-> ""]
  ELSE [status |-> "error", value |-> "",
        error |-> "ValueError: Unknown resource URI: " \o uri]

\* the URIs of the resolver specification
RequestUris ==
  DOMAIN ResourcePath
    \cup {"vita://tokens/shadows", "design://tokens/colors", ""}

\* the URIs of the lifecycle specification
LifecycleUris ==
  {"vita://tokens/colors", "vita://components/buttons",
   "vita://tokens/shadows"}

ReadResource(uri) ==
  LET l == LoadDesignData(design_data, css_file, figma_file)
      o == ReadResourceOutcome(l.data, uri)
  IN  /\ LoadEffect(l)
      /\ result' = [op |-> "read_resource", arg |-> uri,
                    arguments |-> NoArguments,
                    calls |-> <<"_load_design_data">>,
                    status |-> o.status, value |-> o.value,
                    error |-> o.error]
      /\ UNCHANGED <<css_file, figma_file, env_changes, tasks>>

(***************************************************************************)
(* The environment: a source file appears, disappears or changes.          *)
(***************************************************************************)
EnvChangeCss ==
  /\ env_changes < MaxEnvChanges
  /\ \E f \in CssFiles \ {css_file} : css_file' = f
  /\ env_changes' = env_changes + 1
  /\ UNCHANGED <<figma_file, design_data, loaded, css_reads, figma_reads,
                 last_build, result, tasks>>

EnvChangeFigma ==
  /\ env_changes < MaxEnvChanges
  /\ \E f \in FigmaFiles \ {figma_file} : figma_file' = f
  /\ env_changes' = env_changes + 1
  /\ UNCHANGED <<css_file, design_data, loaded, css_reads, figma_reads,
                 last_build, result, tasks>>


(***************************************************************************)
(* The Tool Dispatcher: handle_call_tool.                                  *)
(***************************************************************************)
\* if not arguments: arguments = {}
ArgumentsOrEmpty(arguments) ==
  IF arguments.given THEN arguments.map ELSE EmptyDict

\* the tool names of the if/elif chain and the producer each is routed to
Producer ==
  ("generate_component" :> "_generate_component")
  @@ ("create_layout" :> "_create_layout")
  @@ ("validate_design" :> "_validate_design")
  @@ ("get_token_value" :> "_get_token_value")

\* a dispatcher whose chain ends in a producer, where handle_call_tool
\* ends in the raise
CallToolOutcomeFallingThrough(dd, name, args) ==
  LET o == CASE name = "generate_component" -> GenerateComponent(args)
             [] name = "create_layout" -> CreateLayout(args)
             [] name = "validate_design" -> ValidateDesign(args)
             [] OTHER -> GetTokenValue(dd, args)
  IN  [calls |-> <<IF name \in DOMAIN Producer THEN Producer[name]
                   ELSE "_get_token_value">>,
       status |-> o.status, value |-> o.value, error |-> o.error]

\* the body of handle_call_tool after the load, on catalog dd: the calls it
\* makes and what it hands back
CallToolOutcome(dd, name, args) ==
  IF name \in DOMAIN Producer
  THEN LET o == CASE name = "generate_component" -> GenerateComponent(args)
                  [] name = "create_layout" -> CreateLayout(args)
                  [] name = "validate_design" -> ValidateDesign(args)
                  [] name = "get_token_value" -> GetTokenValue(dd, args)
       IN  [calls |-> <<Producer[name]>>, status |-> o.status,
            value |-> o.value, error |-> o.error]
  ELSE [calls |-> <<>>, status |-> "error", value |-> <<>>,
        error |-> "ValueError: Unknown tool: " \o name]

CallTool(name, arguments) ==
  LET args == ArgumentsOrEmpty(arguments)
      l == LoadDesignData(design_data, css_file, figma_file)
      o == CallToolOutcome(l.data, name, args)
  IN  /\ LoadEffect(l)
      /\ result' = [op |-> "call_tool", arg |-> name,
                    arguments |-> arguments,
                    calls |-> <<"_load_design_data">> \o o.calls,
                    status |-> o.status, value |-> o.value,
                    error |-> o.error]
      /\ UNCHANGED <<css_file, figma_file, env_changes, tasks>>

(***************************************************************************)
(* The tool calls of the model.                                            *)
(***************************************************************************)
\* a field of an argument mapping that is not supplied
Missing == [py |-> "missing"]
Optional(values) == values \cup {Missing}

\* the argument mapping with the supplied fields of r
MappingOf(r) == [k \in {f \in DOMAIN r : r[f] # Missing} |-> r[k]]

\* argument mappings of generate_component
GenerateArgSpace ==
  {MappingOf(r) : r \in
     [component_type :
        Optional({PyStr(t) : t \in ComponentTypes \cup {"tooltip"}}),
      variant : Optional({PyStr("default"), PyStr("primary")}),
      theme : Optional({PyStr("dark")}),
      content : Optional({PyStr("Save")}),
      attributes :
        Optional({PyDict(<< <<"id", PyStr("main")>>,
                            <<"title", PyStr("Hello")>> >>),
                  PyStr("disabled"), PyNone})]}

\* argument mappings of create_layout
LayoutArgSpace ==
  {MappingOf(r) : r \in
     [layout_type :
        Optional({PyStr(t) : t \in DOMAIN LayoutBody
                                     \cup {"gallery", "DASHBOARD",
                                           "sign-in page", ""}}
                   \cup {PyNone}),
      components : Optional({PyList(<<PyStr("cards")>>)}),
      theme : Optional({PyStr("auto"), PyStr("dark")}),
      responsive : Optional({PyBool(FALSE)})]}

\* code the model validates
CodeSamples ==
  {<<>>,
  <<"<", "d", "i", "v", " ", "c", "l", "a", "s", "s", "=", "\"", "v", "i",
  "t", "a", "-", "c", "a", "r", "d", "\"", " ", "d", "a", "t", "a", "-",
  "t", "h", "e", "m", "e", "=", "\"", "d", "a", "r", "k", "\"", ">">>,
  <<"<", "i", "m", "g", " ", "a", "l", "t", "=", "\"", "l", "o", "g", "o",
  "\"", " ", "a", "r", "i", "a", "-", "l", "a", "b", "e", "l", "=", "\"",
  "x", "\"", ">", "<", "l", "a", "b", "e", "l", " ", "f", "o", "r", "=",
  "\"", "a", "\"", ">">>,
  <<"c", "o", "l", "o", "r", ":", " ", "v", "a", "r", "(", "-", "-", "v",
  "i", "t", "a", "-", "c", "o", "l", "o", "r", "-", "a", ")", ";", " ",
  "m", "a", "r", "g", "i", "n", ":", " ", "v", "a", "r", "(", "-", "-",
  "v", "i", "t", "a", "-", ")", ";">>,
  <<"v", "i", "t", "a", "-", " ", "p", "l", "a", "i", "n">>}

\* argument mappings of validate_design
ValidateArgSpace ==
  {MappingOf(r) : r \in
     [code : Optional({PyText(c) : c \in CodeSamples}),
      check_accessibility : Optional({PyBool(TRUE), PyBool(FALSE)})]}

\* argument mappings of get_token_value
TokenArgSpace ==
  {MappingOf(r) : r \in
     [token_name :
        Optional({PyStr(n) : n \in {"vita-color-brand-primary",
                                    "vita-color-brand-primary-light",
                                    "vita-color-bg-color-dark",
                                    "vita-color-bg-dark",
                                    "vita-font-size-base",
                                    "color.brand.primary.dark"}}),
      theme : Optional({PyStr("light"), PyStr("dark")})]}

\* arguments as the transport hands them over
Transported(space) == {NoArguments} \cup {Arguments(m) : m \in space}

\* the tool calls of the producers specification
ToolCallSpace ==
  {[name |-> "generate_component", arguments |-> a] :
     a \in Transported(GenerateArgSpace)}
  \cup {[name |-> "create_layout", arguments |-> a] :
          a \in Transported(LayoutArgSpace)}
  \cup {[name |-> "validate_design", arguments |-> a] :
          a \in Transported(ValidateArgSpace)}
  \cup {[name |-> "get_token_value", arguments |-> a] :
          a \in Transported(TokenArgSpace)}
  \cup {[name |-> n, arguments |-> a] :
          n \in {"delete_token", "", "Generate_Component"},
          a \in {NoArguments, Arguments(EmptyDict)}}

\* the tool calls of the lifecycle specification
LifecycleCalls ==
  {[name |-> "generate_component", arguments |-> NoArguments],
   [name |-> "validate_design",
    arguments |-> Arguments([check_accessibility |-> PyBool(FALSE)])],
   [name |-> "get_token_value",
    arguments |-> Arguments(
                    [token_name |-> PyStr("vita-color-brand-primary-light")])],
   [name |-> "delete_token", arguments |-> NoArguments]}

(***************************************************************************)
(* The lifecycle specification: any sequence of loads, resource reads and  *)
(* tool calls, with the environment changing the source files.             *)
(***************************************************************************)
Next ==
  \/ Load
  \/ \E uri \in LifecycleUris : ReadResource(uri)
  \/ \E c \in LifecycleCalls : CallTool(c.name, c.arguments)
  \/ ListResources
  \/ ListTools
  \/ EnvChangeCss
  \/ EnvChangeFigma

Spec == Init /\ [][Next]_vars

(***************************************************************************)
(* The resolver specification: resource reads over every request URI, for  *)
(* every state of the two source files.                                    *)
(***************************************************************************)
NextResolver == \E uri \in RequestUris : ReadResource(uri)

SpecResolver == Init /\ [][NextResolver]_vars

(***************************************************************************)
(* The Extractor specification: the load applied to generated token-source *)
(* texts, with no secondary source.                                        *)
(***************************************************************************)
InitExtract ==
  /\ css_file \in {CssUnreadable} \cup {Readable(t) : t \in GeneratedTexts}
  /\ figma_file = FigmaAbsent
  /\ InitProgram

NextExtract == Load

SpecExtract == InitExtract /\ [][NextExtract]_vars

(***************************************************************************)
(* The producers specification: tool calls over the argument spaces, on a  *)
(* catalog built from a readable primary source.                           *)
(***************************************************************************)
InitTools ==
  /\ css_file =
       Readable(PieceBrandLight \o <<"\n">> \o PieceBgColor \o <<"\n">>
                  \o PieceFont)
  /\ figma_file \in {FigmaAbsent, Json(DocValid)}
  /\ InitProgram

NextTools == \E c \in ToolCallSpace : CallTool(c.name, c.arguments)

SpecTools == InitTools /\ [][NextTools]_vars

(***************************************************************************)
(* Claims about the Catalog Store, checked under Spec.                     *)
(***************************************************************************)
\* C1: once _load_design_data has completed, the catalog is never
\* completely empty, whatever the two source files are.
C1_CatalogNeverEmpty == loaded => Truthy(design_data)

\* C2: over any sequence of loads, resource reads and tool calls, the
\* primary source and the secondary source are each read at most once.
C2_SourcesReadAtMostOnce == css_reads <= 1 /\ figma_reads <= 1

\* C3: once the first load has completed, no later step changes the
\* catalog, whatever happens to the source files.
C3_CatalogReadOnlyAfterLoad == [][loaded => design_data' = design_data]_vars

\* C4: the Merger never overwrites: every colors key the catalog held
\* before _merge_figma_data ran holds the same record after it.
C4_MergerNeverOverwrites ==
  (/\ last_build.ran
   /\ last_build.figma.state = "json"
   /\ "colors" \in DOMAIN last_build.extracted)
  => \A K \in DOMAIN last_build.extracted.colors :
       /\ K \in DOMAIN design_data.colors
       /\ design_data.colors[K] = last_build.extracted.colors[K]

\* a merge met a leaf whose key the Extractor had already written, with
\* another value, kept the Extractor's record and inserted the other leaf
C4_Witness ==
  /\ last_build.ran
  /\ last_build.figma = Json(DocValid)
  /\ "colors" \in DOMAIN last_build.extracted
  /\ "vita_color_brand_primary_light" \in DOMAIN last_build.extracted.colors
  /\ design_data.colors["vita_color_brand_primary_light"].value = "#0a0"
  /\ "vita_color_brand_primary_dark" \in DOMAIN design_data.colors

\* C5: when the secondary source is present but unreadable, unparseable or
\* malformed, every record the Extractor produced is still in the catalog,
\* unchanged, after the load.
C5_BadSecondaryKeepsExtracted ==
  (/\ last_build.ran
   /\ last_build.figma \in
        {FigmaUnreadable, FigmaUnparseable}
          \cup {Json(d) : d \in MalformedDocs})
  => \A c \in DOMAIN last_build.extracted :
       \A K \in DOMAIN last_build.extracted[c] :
         /\ c \in DOMAIN design_data
         /\ K \in DOMAIN design_data[c]
         /\ design_data[c][K] = last_build.extracted[c][K]

(***************************************************************************)
(* Claims about the Extractor, checked under SpecExtract.                  *)
(***************************************************************************)
\* the colors records of catalog dd that carry the stripped value and the
\* whole name of match m
RecordsOf(dd, m) ==
  {K \in DOMAIN dd.colors :
     /\ dd.colors[K].value = Str(Strip(m.value))
     /\ dd.colors[K].css_var = "--vita-" \o Str(m.prop_name)}

\* C6: every matched declaration --vita-color-<x>: <v>; has exactly one
\* colors record whose value is v stripped and whose css_var is
\* --vita-color-<x>.
C6_ColorDeclarationsRecorded ==
  (loaded /\ css_file.state = "readable")
  => LET matches == FindAll(css_file.content)
     IN  \A i \in 1..Len(matches) :
           StartsWith(matches[i].prop_name, ColorPrefix)
           => Cardinality(RecordsOf(design_data, matches[i])) = 1

(***************************************************************************)
(* Claims about the Resource Resolver, checked under SpecResolver.         *)
(***************************************************************************)
\* C7: read_resource answers each of the 10 listed identifiers with a
\* serialized value, the empty mapping when the catalog is empty, and never
\* with an error; any other identifier fails with ValueError and no value.
C7_ResolverTotalOnListed ==
  result.op = "read_resource"
  => IF result.arg \in ListedResourceUris
     THEN /\ result.status = "ok"
          /\ \E x \in {Slice(design_data, p) :
                         p \in {<<"colors">>, <<"typography">>,
                                <<"spacing">>, <<"components", "buttons">>,
                                <<"components", "inputs">>,
                                <<"components", "cards">>,
                                <<"themes", "light">>, <<"themes", "dark">>,
                                <<"guidelines", "accessibility">>,
                                <<"examples", "layouts">>}} :
               result.value = JsonDumps(x)
          /\ ~Truthy(design_data) => result.value = JsonDumps(EmptyDict)
     ELSE /\ result.status = "error"
          /\ result.error = "ValueError: Unknown resource URI: " \o result.arg

\* a listed identifier was read on a catalog the load left empty
C7_Witness ==
  /\ result.op = "read_resource"
  /\ result.arg = "vita://components/buttons"
  /\ loaded
  /\ ~Truthy(design_data)
  /\ result.status = "ok"
  /\ result.value = JsonDumps(EmptyDict)

(***************************************************************************)
(* Claims about the Tool Dispatcher and the generators, checked under      *)
(* SpecTools.                                                              *)
(***************************************************************************)
\* C8: call_tool first runs the catalog load and then routes to exactly one
\* producer, the one of the tool name; any other name fails with ValueError
\* and no producer is called.  Absent arguments are the empty mapping.
C8_DispatchRoutesToOneProducer ==
  result.op = "call_tool"
  => /\ loaded
     /\ IF result.arg \in ListedToolNames
        THEN result.calls = <<"_load_design_data", "_" \o result.arg>>
        ELSE /\ result.calls = <<"_load_design_data">>
             /\ result.status = "error"
             /\ result.error = "ValueError: Unknown tool: " \o result.arg
     /\ (~result.arguments.given /\ result.arg = "generate_component")
        => result.value = GenerateComponent(EmptyDict).value

\* a call without arguments was routed to its producer after the load
C8_Witness ==
  /\ result.op = "call_tool"
  /\ result.arg = "generate_component"
  /\ ~result.arguments.given
  /\ result.calls = <<"_load_design_data", "_generate_component">>
  /\ result.status = "ok"

\* the component_type of the latest call, None when it is not supplied
RequestedComponentType ==
  ArgGet(ArgumentsOrEmpty(result.arguments), "component_type", PyNone)

\* the latest call is generate_component and names no known component type
UnknownComponentRequested ==
  /\ result.op = "call_tool"
  /\ result.arg = "generate_component"
  /\ ~(/\ RequestedComponentType.py = "str"
       /\ RequestedComponentType.s \in
            {"button", "input", "card", "badge", "layout"})

\* the attributes of the latest call are a mapping, or are not supplied
AttributesIsMapping ==
  ArgGet(ArgumentsOrEmpty(result.arguments), "attributes",
         PyDict(<<>>)).py = "dict"

\* C9, as stated: generate_component returns a text and never raises, for
\* every argument mapping; an unknown or absent component_type gives the
\* text that names it.
C9_GenerateComponentTotal ==
  (result.op = "call_tool" /\ result.arg = "generate_component")
  => /\ result.status = "ok"
     /\ UnknownComponentRequested
        => Flatten(result.value)
             = "Error: Unknown component type '"
                 \o Format(RequestedComponentType) \o "'"

\* C9, amended: the same for every argument mapping whose attributes, when
\* supplied, is a mapping.
C9_GenerateComponentTotalOnMappings ==
  (/\ result.op = "call_tool"
   /\ result.arg = "generate_component"
   /\ AttributesIsMapping)
  => /\ result.status = "ok"
     /\ UnknownComponentRequested
        => Flatten(result.value)
             = "Error: Unknown component type '"
                 \o Format(RequestedComponentType) \o "'"

\* generate_component was called without a component_type and handed back
\* the text naming None
C9_Witness ==
  /\ UnknownComponentRequested
  /\ RequestedComponentType = PyNone
  /\ result.status = "ok"
  /\ Flatten(result.value) = "Error: Unknown component type 'None'"

\* the layout_type of the latest call, None when it is not supplied
RequestedLayoutType ==
  ArgGet(ArgumentsOrEmpty(result.arguments), "layout_type", PyNone)

\* the latest call is create_layout with a layout_type string that is none
\* of the five
UnknownLayoutRequested ==
  /\ result.op = "call_tool"
  /\ result.arg = "create_layout"
  /\ RequestedLayoutType.py = "str"
  /\ RequestedLayoutType.s \notin
       {"dashboard", "form", "landing", "profile", "settings"}

\* what create_layout hands back for the dashboard under the arguments of
\* the latest call
DashboardUnderSameArguments ==
  CreateLayout([k \in DOMAIN ArgumentsOrEmpty(result.arguments)
                       \cup {"layout_type"} |->
                  IF k = "layout_type" THEN PyStr("dashboard")
                  ELSE ArgumentsOrEmpty(result.arguments)[k]]).value

\* C10: create_layout with a layout_type string outside the five does not
\* fail: its text is that of a known layout (doctype, head, root theme
\* attribute, footer) but for the type named, the title derived from it
\* and the body, which is the Unknown layout type fragment.
C10_UnknownLayoutDegrades ==
  UnknownLayoutRequested
  => /\ result.status = "ok"
     /\ LET known == DashboardUnderSameArguments
            differing == {i \in 1..Len(known) : result.value[i] # known[i]}
        IN  /\ Len(result.value) = Len(known)
            /\ \E name, title, body \in 1..Len(known) :
                 /\ differing \subseteq {name, title, body}
                 /\ known[name] = "dashboard"
                 /\ known[title] = "Dashboard"
                 /\ known[body] = DashboardLayout
                 /\ result.value[name] = RequestedLayoutType.s
                 /\ result.value[body] =
                      "<div class=\"vita-container\"><h1>Unknown layout type</h1></div>"

\* create_layout was called with layout_type gallery and handed back a text
C10_Witness ==
  /\ UnknownLayoutRequested
  /\ RequestedLayoutType = PyStr("gallery")
  /\ result.status = "ok"
  /\ Len(result.value) > 0

(***************************************************************************)
(* Claims about the token lookup, checked under SpecTools.                 *)
(***************************************************************************)
\* the token_name of the latest call, the empty string when not supplied
RequestedTokenName ==
  ArgGet(ArgumentsOrEmpty(result.arguments), "token_name", PyStr(""))

\* the records of the catalog, at the second level of any category, whose
\* css_var is -- followed by the requested token name
RecordsNamed ==
  {rec \in UNION {{design_data[c][k] : k \in DOMAIN design_data[c]} :
                    c \in DOMAIN design_data} :
     /\ "css_var" \in DOMAIN rec
     /\ rec.css_var = "--" \o Format(RequestedTokenName)}

\* the arguments of the latest call without their theme entry
ArgumentsWithoutTheme ==
  [k \in DOMAIN ArgumentsOrEmpty(result.arguments) \ {"theme"} |->
     ArgumentsOrEmpty(result.arguments)[k]]

\* C11: get_token_value returns the not-found message naming token_name
\* exactly when no catalog record has css_var --<token_name>; otherwise it
\* returns the value and description of such a record; the theme argument
\* makes no difference.
C11_TokenLookup ==
  (result.op = "call_tool" /\ result.arg = "get_token_value")
  => /\ result.status = "ok"
     /\ IF RecordsNamed = {}
        THEN Flatten(result.value)
               = "Token '" \o Format(RequestedTokenName)
                   \o "' not found in ViTA design system"
        ELSE \E rec \in RecordsNamed :
               Flatten(result.value)
                 = "Token: " \o Format(RequestedTokenName) \o "\nValue: "
                     \o rec.value \o "\nDescription: " \o rec.description
     /\ result.value = GetTokenValue(design_data, ArgumentsWithoutTheme).value

\* a token the catalog holds was looked up with theme dark and found
C11_Witness ==
  /\ result.op = "call_tool"
  /\ result.arg = "get_token_value"
  /\ RequestedTokenName = PyStr("vita-color-brand-primary-light")
  /\ "theme" \in DOMAIN ArgumentsOrEmpty(result.arguments)
  /\ ArgumentsOrEmpty(result.arguments)["theme"] = PyStr("dark")
  /\ RecordsNamed # {}
  /\ Flatten(result.value)
       = "Token: vita-color-brand-primary-light\nValue: #0a0\nDescription: "
           \o "ViTA color token for brand primary light"

(***************************************************************************)
(* Claims about the Extractor on a source it cannot read, checked under    *)
(* SpecExtract, where the secondary source is absent and the catalog after *)
(* the load is what _parse_css_tokens returned.                            *)
(***************************************************************************)
\* the seven categories of the catalog
CatalogCategories ==
  {"colors", "typography", "spacing", "components", "themes", "guidelines",
   "examples"}

\* C12: when the primary source exists but cannot be read,
\* _parse_css_tokens does not raise and returns a catalog with all seven
\* categories, without token records and without seed descriptors.
C12_UnreadableGivesEmptyShaped ==
  (loaded /\ css_file.state = "unreadable")
  => /\ ~last_build.raised
     /\ DOMAIN design_data = CatalogCategories
     /\ \A c \in TokenCategories : design_data[c] = EmptyDict
     /\ \A c \in CatalogCategories \ TokenCategories :
          \A slot \in DOMAIN design_data[c] :
            design_data[c][slot] = EmptyDict

\* a load met a primary source it could not read and built a catalog
C12_Witness ==
  /\ loaded
  /\ last_build.ran
  /\ css_reads = 1
  /\ css_file.state = "unreadable"
  /\ DOMAIN design_data = CatalogCategories

(***************************************************************************)
(* The component generator on its own: generate_component calls with the   *)
(* five component types, over variants, themes and attribute mappings.     *)
(***************************************************************************)
\* an attribute value with the characters markup gives a meaning to
RawValue == "a\"<b>&"

\* argument mappings of generate_component that name a component type
ComponentArgSpace ==
  {MappingOf(r) : r \in
     [component_type : {PyStr(t) : t \in ComponentTypes},
      variant : Optional({PyStr("default"), PyStr("primary"),
                          PyStr("error")}),
      theme : Optional({PyStr("auto"), PyStr("dark")}),
      content : Optional({PyStr("Save")}),
      attributes :
        Optional({PyDict(<< <<"id", PyStr("main")>>,
                            <<"title", PyStr("Hello")>> >>),
                  PyDict(<< <<"data-x", PyStr(RawValue)>> >>)})]}

InitComponents ==
  /\ css_file = Readable(PieceBrandLight)
  /\ figma_file = FigmaAbsent
  /\ InitProgram

NextComponents ==
  \E a \in ComponentArgSpace : CallTool("generate_component", Arguments(a))

SpecComponents == InitComponents /\ [][NextComponents]_vars

\* the latest call is generate_component and handed back generated markup
ComponentGenerated ==
  /\ result.op = "call_tool"
  /\ result.arg = "generate_component"
  /\ result.status = "ok"
  /\ RequestedComponentType.py = "str"
  /\ RequestedComponentType.s \in ComponentTypes

\* the variant, theme and attributes of the latest call, with the defaults
\* of the tool when they are not supplied
RequestedVariant ==
  ArgGet(ArgumentsOrEmpty(result.arguments), "variant", PyStr("default"))
RequestedTheme ==
  ArgGet(ArgumentsOrEmpty(result.arguments), "theme", PyStr("auto"))
RequestedAttributes ==
  ArgGet(ArgumentsOrEmpty(result.arguments), "attributes", PyDict(<<>>))

\* the base class of each component type
BaseClass ==
  ("button" :> "vita-button")
  @@ ("input" :> "vita-input")
  @@ ("card" :> "vita-card")
  @@ ("badge" :> "vita-status-badge")
  @@ ("layout" :> "vita-container")

\* the text has a class attribute whose value is exactly classes
HasClassAttribute(text, classes) ==
  \E i \in 2..Len(text) - 1 :
    /\ text[i] = classes
    /\ text[i - 1] \in {"<button class=\"", "<div class=\"",
                        "<span class=\"", "\" class=\""}
    /\ text[i + 1] \in {"\"", "\" placeholder=\""}

\* C13: for each of the five component types the variant folds into a class
\* suffix: default gives the base class alone, any other variant v gives
\* the base class followed by <base>-<v>.
C13_VariantFoldsIntoClass ==
  ComponentGenerated
  => LET base == BaseClass[RequestedComponentType.s]
     IN  HasClassAttribute(result.value,
           IF RequestedVariant = PyStr("default") THEN base
           ELSE base \o " " \o base \o "-" \o Format(RequestedVariant))

\* the markup of the latest generate_component text: the segments between
\* the opening line with the fence and the closing fence
GeneratedMarkup == SubSeq(result.value, 6, Len(result.value) - 2)

\* the data-theme attribute that carries theme value t, as it is emitted
DataTheme(t) == " data-theme=\"" \o t \o "\""

\* C14: for each of the five component types the markup has a data-theme
\* attribute carrying the theme exactly when the theme is not auto: it
\* follows the class attribute of the opening tag; with theme auto, or no
\* theme, no data-theme attribute is emitted.
C14_ThemeAttributeUnlessAuto ==
  ComponentGenerated
  => LET html == GeneratedMarkup
     IN  IF RequestedTheme # PyStr("auto")
         THEN /\ html[4] = DataTheme(Format(RequestedTheme))
              /\ \A i \in 1..Len(html) :
                   html[i] \in {DataTheme(t) : t \in {"auto", "dark"}}
                   => i = 4
         ELSE /\ html[4] = ""
              /\ \A i \in 1..Len(html) :
                   html[i] \notin {DataTheme(t) : t \in {"auto", "dark"}}

\* a card was generated with theme dark and carries the attribute
C14_Witness ==
  /\ ComponentGenerated
  /\ RequestedComponentType = PyStr("card")
  /\ RequestedTheme = PyStr("dark")
  /\ GeneratedMarkup[4] = " data-theme=\"dark\""

\* C15: for every generate_component call, whatever the component type,
\* every entry k -> v of the attributes mapping is in the markup as the
\* literal pair k="v", verbatim and unescaped.
C15_AttributesEmittedVerbatim ==
  (ComponentGenerated /\ RequestedAttributes.py = "dict")
  => \A e \in 1..Len(RequestedAttributes.items) :
       LET k == RequestedAttributes.items[e][1]
           v == RequestedAttributes.items[e][2]
       IN  \E i \in 1..Len(GeneratedMarkup) :
             GeneratedMarkup[i] = k \o "=\"" \o Format(v) \o "\""

(***************************************************************************)
(* The layout generator on its own: create_layout calls.                   *)
(***************************************************************************)
InitLayouts ==
  /\ css_file = Readable(PieceBrandLight)
  /\ figma_file = FigmaAbsent
  /\ InitProgram

NextLayouts ==
  \E a \in LayoutArgSpace : CallTool("create_layout", Arguments(a))

SpecLayouts == InitLayouts /\ [][NextLayouts]_vars

\* the theme of the latest create_layout call, auto when not supplied
RequestedLayoutTheme ==
  ArgGet(ArgumentsOrEmpty(result.arguments), "theme", PyStr("auto"))

MaxCodePieces == 3

\* the fragments a generated code is made of
CodePieces ==
  {<<"v", "i", "t", "a">>, <<"-">>, <<"v", "a", "r", "(", "-", "-">>}

\* the codes of exactly n fragments
RECURSIVE CodesOfLen(_)
CodesOfLen(n) ==
  IF n = 0 THEN {<<>>}
  ELSE {p \o c : p \in CodePieces, c \in CodesOfLen(n - 1)}

\* the codes of at most MaxCodePieces fragments
GeneratedCodes == UNION {CodesOfLen(n) : n \in 0..MaxCodePieces}

\* argument mappings of validate_design with a code
CheckedArgSpace ==
  {MappingOf(r) : r \in
     [code : {PyText(c) : c \in CodeSamples \cup GeneratedCodes},
      check_accessibility : Optional({PyBool(TRUE), PyBool(FALSE)})]}

InitValidate ==
  /\ css_file = Readable(PieceBrandLight)
  /\ figma_file = FigmaAbsent
  /\ InitProgram

NextValidate ==
  \E a \in CheckedArgSpace : CallTool("validate_design", Arguments(a))

SpecValidate == InitValidate /\ [][NextValidate]_vars

\* the code of the latest validate_design call
ValidatedCode == ArgumentsOrEmpty(result.arguments)["code"].chars

\* the findings of the latest report, as a set
ReportedFindings ==
  {result.value.findings[i] : i \in 1..Len(result.value.findings)}

\* C17: on a code without the substring vita- (so without any
\* var(--vita-...) reference either) the report of validate_design has the
\* negative class finding and the negative token finding, and neither the
\* positive class finding nor the positive token finding, whether or not
\* accessibility is checked.
C17_NoVitaGivesNegativeFindings ==
  (/\ result.op = "call_tool"
   /\ result.arg = "validate_design"
   /\ ~Contains(ValidatedCode, ClassHead))
  => /\ result.status = "ok"
     /\ Finding("cross", "No ViTA design system classes found")
          \in ReportedFindings
     /\ Finding("warning", "No design tokens (CSS custom properties) found")
          \in ReportedFindings
     /\ \A f \in ReportedFindings :
          f.text \notin {"Found {count} ViTA classes: {names}",
                         "Using {count} design tokens: {names}"}

\* a code with accessibility markup and no vita- in it was validated with
\* the accessibility checks on
C17_Witness ==
  /\ result.op = "call_tool"
  /\ result.arg = "validate_design"
  /\ result.status = "ok"
  /\ ~Contains(ValidatedCode, ClassHead)
  /\ Contains(ValidatedCode, <<"a", "r", "i", "a", "-">>)
  /\ IsTruthy(ArgGet(ArgumentsOrEmpty(result.arguments),
                      "check_accessibility", PyBool(TRUE)))
  /\ Finding("check", "ARIA attributes found") \in ReportedFindings
  /\ Finding("cross", "No ViTA design system classes found")
       \in ReportedFindings

(***************************************************************************)
(* Claims about the records during catalog construction, checked under     *)
(* SpecExtract.                                                            *)
(***************************************************************************)
\* what the scan writes for match m: the category, the key and the record
\* (category none when the declaration is of no token category)
WriteOf(m) ==
  IF StartsWith(m.prop_name, ColorPrefix)
  THEN [category |-> "colors",
        key |-> ColorRecord(m.prop_name, Str(Strip(m.value))).key,
        rec |-> ColorRecord(m.prop_name, Str(Strip(m.value))).rec]
  ELSE IF StartsWith(m.prop_name, FontPrefix)
  THEN [category |-> "typography",
        key |-> FontRecord(m.prop_name, Str(Strip(m.value))).key,
        rec |-> FontRecord(m.prop_name, Str(Strip(m.value))).rec]
  ELSE IF StartsWith(m.prop_name, SpacingPrefix)
  THEN [category |-> "spacing",
        key |-> SpacingRecord(m.prop_name, Str(Strip(m.value))).key,
        rec |-> SpacingRecord(m.prop_name, Str(Strip(m.value))).rec]
  ELSE [category |-> "none", key |-> "", rec |-> EmptyDict]

\* C18: a token record is immutable once inserted: the record the catalog
\* holds under a key when construction is over is the one the first write
\* to that key stored, also when a later declaration of the same token
\* source maps to the same key.
C18_RecordsImmutableOnceInserted ==
  (loaded /\ css_file.state = "readable")
  => LET matches == FindAll(css_file.content)
     IN  \A i \in 1..Len(matches) :
           LET w == WriteOf(matches[i])
           IN  (/\ w.category # "none"
                /\ \A j \in 1..(i - 1) :
                     ~(/\ WriteOf(matches[j]).category = w.category
                       /\ WriteOf(matches[j]).key = w.key))
               => /\ w.key \in DOMAIN design_data[w.category]
                  /\ design_data[w.category][w.key] = w.rec

(***************************************************************************)
(* Claims about the leaves of the secondary document, checked under Spec.  *)
(***************************************************************************)
\* the entries of object o that are mappings, as <<key, value>> pairs
MappingEntries(o) ==
  {o.items[i] : i \in {j \in 1..Len(o.items) : o.items[j][2].t = "obj"}}

\* the leaves tokens.color[category][name][theme] of document doc that are
\* mappings with a value field, under mappings at every level
ReachableLeaves(doc) ==
  IF /\ doc.t = "obj"
     /\ Has(doc, "tokens")
     /\ Get(doc, "tokens").t = "obj"
     /\ Has(Get(doc, "tokens"), "color")
     /\ Get(Get(doc, "tokens"), "color").t = "obj"
  THEN UNION {UNION {{[category |-> c[1], name |-> n[1], theme |-> th[1],
                       data |-> th[2]] :
                        th \in {z \in MappingEntries(n[2]) :
                                  Has(z[2], "value")}} :
                       n \in MappingEntries(c[2])} :
                c \in MappingEntries(Get(Get(doc, "tokens"), "color"))}
  ELSE {}

\* C19: every reachable leaf with a value field whose key
\* vita_color_<category>_<name>_<theme> the colors category did not hold
\* before the merge is in colors after it, with that value, figma_path
\* color.<category>.<name>.<theme> and the description of the leaf or the
\* empty string; entries that are not mappings, at any level, do not keep
\* the leaves after them from being inserted.
C19_ReachableLeavesInserted ==
  (/\ last_build.ran
   /\ last_build.figma.state = "json"
   /\ "colors" \in DOMAIN last_build.extracted)
  => \A leaf \in ReachableLeaves(last_build.figma.content) :
       LET key == "vita_color_" \o leaf.category \o "_" \o leaf.name
                    \o "_" \o leaf.theme
       IN  key \notin DOMAIN last_build.extracted.colors
           => /\ key \in DOMAIN design_data.colors
              /\ design_data.colors[key]
                   = [value |-> Get(leaf.data, "value").v,
                      figma_path |-> "color." \o leaf.category \o "."
                                       \o leaf.name \o "." \o leaf.theme,
                      description |->
                        IF Has(leaf.data, "description")
                        THEN Get(leaf.data, "description").v
                        ELSE ""]

(***************************************************************************)
(* The handlers as tasks of the event loop.  A handler runs from the       *)
(* moment the loop starts it until it returns; the loop can give control   *)
(* to another task only while the running one is at a suspension point: an *)
(* await on something that is not finished.  The awaits of the handlers    *)
(* (lines 113, 256, 259-265 and 278) are on coroutines of this class that  *)
(* contain no await of their own and open and read files synchronously, so *)
(* they run to their end without returning control to the loop.            *)
(*                                                                         *)
(* Positions of a handler: idle (not started), guard (at the test of       *)
(* _load_design_data), extract (past the guard, inside the await of        *)
(* _parse_css_tokens), merge (self.design_data assigned, secondary source  *)
(* still to do), body (the load has returned), done.                       *)
(***************************************************************************)
\* the positions at which a running handler returns control to the loop
\* before it goes on
SuspensionPointsAtExtractor == {"extract"}

SuspensionPoints == {}

\* the requests of the interleaved handlers
InterleavedRequests ==
  {[op |-> "read_resource", arg |-> "vita://tokens/colors"],
   [op |-> "call_tool", arg |-> "get_token_value"]}

\* the loop gives control to handler h: it starts it on request r, or
\* resumes it where it was suspended
Schedule(h, r) ==
  /\ tasks.current = 0
  /\ tasks.pc[h] \in {"idle"} \cup SuspensionPoints
  /\ tasks' = IF tasks.pc[h] = "idle"
              THEN [tasks EXCEPT !.pc[h] = "guard", !.request[h] = r,
                                 !.current = h]
              ELSE [tasks EXCEPT !.current = h]
  /\ UNCHANGED <<css_file, figma_file, env_changes, design_data, loaded,
                 css_reads, figma_reads, last_build, result>>

\* handler h returns control to the loop: it is suspended, or has returned
Yield(h) ==
  /\ tasks.current = h
  /\ tasks.pc[h] \in {"done"} \cup SuspensionPoints
  /\ tasks' = [tasks EXCEPT !.current = 0]
  /\ UNCHANGED <<css_file, figma_file, env_changes, design_data, loaded,
                 css_reads, figma_reads, last_build, result>>

\* if self.design_data: return
StepGuard(h) ==
  /\ tasks.current = h
  /\ tasks.pc[h] = "guard"
  /\ IF Truthy(design_data)
     THEN /\ tasks' = [tasks EXCEPT !.pc[h] = "body"]
          /\ loaded' = TRUE
     ELSE /\ tasks' = [tasks EXCEPT !.pc[h] =
                         IF css_file.state = "absent" THEN "merge"
                         ELSE "extract"]
          /\ UNCHANGED loaded
  /\ UNCHANGED <<css_file, figma_file, env_changes, design_data, css_reads,
                 figma_reads, last_build, result>>

\* self.design_data = await self._parse_css_tokens(css_file)
StepExtract(h) ==
  /\ tasks.current = h
  /\ tasks.pc[h] = "extract"
  /\ design_data' = ParseCssTokens(css_file)
  /\ css_reads' = css_reads + 1
  /\ tasks' = [tasks EXCEPT !.pc[h] = "merge"]
  /\ UNCHANGED <<css_file, figma_file, env_changes, loaded, figma_reads,
                 last_build, result>>

\* the rest of _load_design_data: the secondary source and the except
\* clause
StepMerge(h) ==
  /\ tasks.current = h
  /\ tasks.pc[h] = "merge"
  /\ design_data' =
       IF figma_file.state = "absent" THEN design_data
       ELSE IF FigmaRaises(figma_file) THEN FallbackData
       ELSE MergeFigmaData(design_data, figma_file.content)
  /\ figma_reads' = figma_reads + (IF figma_file.state = "absent" THEN 0
                                   ELSE 1)
  /\ loaded' = TRUE
  /\ last_build' = [ran |-> TRUE, figma |-> figma_file,
                    extracted |-> TokenRecords(design_data),
                    raised |-> FigmaRaises(figma_file)]
  /\ tasks' = [tasks EXCEPT !.pc[h] = "body"]
  /\ UNCHANGED <<css_file, figma_file, env_changes, css_reads, result>>

\* the handler after its load: it reads the catalog and returns
StepBody(h) ==
  /\ tasks.current = h
  /\ tasks.pc[h] = "body"
  /\ LET r == tasks.request[h]
         o == IF r.op = "read_resource"
              THEN ReadResourceOutcome(design_data, r.arg) @@ [calls |-> <<>>]
              ELSE CallToolOutcome(design_data, r.arg, EmptyDict)
     IN  result' = [op |-> r.op, arg |-> r.arg, arguments |-> NoArguments,
                    calls |-> <<"_load_design_data">> \o o.calls,
                    status |-> o.status, value |-> o.value,
                    error |-> o.error]
  /\ tasks' = [tasks EXCEPT !.pc[h] = "done"]
  /\ UNCHANGED <<css_file, figma_file, env_changes, design_data, loaded,
                 css_reads, figma_reads, last_build>>

NextInterleaved ==
  \E h \in Handlers :
    \/ \E r \in InterleavedRequests : Schedule(h, r)
    \/ Yield(h)
    \/ StepGuard(h)
    \/ StepExtract(h)
    \/ StepMerge(h)
    \/ StepBody(h)

SpecInterleaved == Init /\ [][NextInterleaved]_vars

\* C20: with the handlers interleaved at suspension points only, no second
\* handler is in the catalog construction while a first one is, and no
\* handler reads the catalog while another has assigned it and has not
\* finished the merge.
C20_ConstructionNotInterleaved ==
  /\ Cardinality({h \in Handlers : tasks.pc[h] \in {"extract", "merge"}}) <= 1
  /\ \A h1, h2 \in Handlers :
       (h1 # h2 /\ tasks.pc[h2] = "merge")
       => ~(tasks.current = h1 /\ tasks.pc[h1] \in {"guard", "body"})

\* one handler is between the Extractor and the Merger, the catalog is
\* partially built, and another request is waiting to be started
C20_Witness ==
  \E h1, h2 \in Handlers :
    /\ h1 # h2
    /\ tasks.current = h1
    /\ tasks.pc[h1] = "merge"
    /\ tasks.pc[h2] = "idle"
    /\ figma_file = Json(DocValid)
    /\ Truthy(design_data)
    /\ ~loaded

(***************************************************************************)
(* The order and the number of the findings, checked under SpecValidate.   *)
(***************************************************************************)
\* the messages of each kind of finding
ClassFindingTexts ==
  {"No ViTA design system classes found",
   "Found {count} ViTA classes: {names}"}
ThemeFindingTexts ==
  {"Theme attribute found",
   "No theme attribute found (recommended: data-theme='light' or 'dark')"}
TokenFindingTexts ==
  {"Using {count} design tokens: {names}",
   "No design tokens (CSS custom properties) found"}

\* check_accessibility of the latest call, True when it is not supplied
AccessibilityChecked ==
  ArgGet(ArgumentsOrEmpty(result.arguments), "check_accessibility",
         PyBool(TRUE)) = PyBool(TRUE)

\* the accessibility messages the validated code calls for, in the order of
\* the checks
ExpectedAccessibilityTexts ==
  (IF Contains(ValidatedCode, <<"a", "l", "t", "=">>)
        /\ Contains(ValidatedCode, <<"i", "m", "g">>)
   THEN <<"Alt text found for images">> ELSE <<>>)
  \o (IF Contains(ValidatedCode, <<"a", "r", "i", "a", "-">>)
      THEN <<"ARIA attributes found">> ELSE <<>>)
  \o (IF Contains(ValidatedCode, <<"<", "l", "a", "b", "e", "l">>)
            /\ Contains(ValidatedCode, <<"f", "o", "r", "=">>)
      THEN <<"Proper form labels found">> ELSE <<>>)

\* the number of findings of the latest report with a message in texts
FindingsIn(texts) ==
  Cardinality({i \in 1..Len(result.value.findings) :
                 result.value.findings[i].text \in texts})

\* C21: the report of validate_design is the class finding, the theme
\* finding, then, only when check_accessibility is true, the positive
\* accessibility findings (alt text, ARIA, labels) the code calls for, then
\* the token finding; each finding is decided by its own check alone.  So
\* there is exactly one class, one theme and one token finding, and no
\* accessibility finding when check_accessibility is false.
C21_FindingsInFixedOrder ==
  (result.op = "call_tool" /\ result.arg = "validate_design")
  => LET fs == result.value.findings
         n == Len(fs)
         acc == IF AccessibilityChecked THEN ExpectedAccessibilityTexts
                ELSE <<>>
     IN  /\ result.status = "ok"
         /\ n = Len(acc) + 3
         /\ fs[1].text \in ClassFindingTexts
         /\ fs[1].mark = "check"
              <=> \E i \in 1..Len(ValidatedCode) :
                    /\ i + 5 <= Len(ValidatedCode)
                    /\ SubSeq(ValidatedCode, i, i + 4) = ClassHead
                    /\ ValidatedCode[i + 5] \in WordOrDash
         /\ fs[2].text \in ThemeFindingTexts
         /\ fs[2].mark = "check"
              <=> Contains(ValidatedCode, <<"d", "a", "t", "a", "-", "t", "h",
                                            "e", "m", "e", "=">>)
         /\ \A i \in 1..Len(acc) :
              fs[2 + i] = Finding("check", acc[i])
         /\ fs[n].text \in TokenFindingTexts
         /\ fs[n].mark = "check"
              <=> \E i \in 1..Len(ValidatedCode) :
                    LET e == RunEnd(ValidatedCode, i + Len(TokenHead))
                    IN  /\ i + Len(TokenHead) <= Len(ValidatedCode)
                        /\ SubSeq(ValidatedCode, i, i + Len(TokenHead) - 1)
                             = TokenHead
                        /\ e >= i + Len(TokenHead)
                        /\ e + 1 <= Len(ValidatedCode)
                        /\ ValidatedCode[e + 1] = ")"
         /\ FindingsIn(ClassFindingTexts) = 1
         /\ FindingsIn(ThemeFindingTexts) = 1
         /\ FindingsIn(TokenFindingTexts) = 1
         /\ ~AccessibilityChecked
              => FindingsIn(ClassFindingTexts \cup ThemeFindingTexts
                              \cup TokenFindingTexts) = n

\* a code without classes, theme attribute or tokens and with all three
\* kinds of accessibility markup was validated with the checks on: three
\* negative findings around three accessibility findings
C21_Witness ==
  /\ result.op = "call_tool"
  /\ result.arg = "validate_design"
  /\ result.status = "ok"
  /\ AccessibilityChecked
  /\ Len(ExpectedAccessibilityTexts) = 3
  /\ Len(result.value.findings) = 6
  /\ result.value.findings[1].mark = "cross"
  /\ result.value.findings[6].mark = "warning"

(***************************************************************************)
(* The advertised names specification: the two listings, resource reads    *)
(* over every request URI and tool calls over listed and unlisted names,   *)
(* for every state of the two source files.                                *)
(***************************************************************************)
\* the tool names of the calls
RequestToolNames == DOMAIN Producer \cup {"delete_token", "list_tools", ""}

NextAdvertised ==
  \/ ListResources
  \/ ListTools
  \/ \E uri \in RequestUris : ReadResource(uri)
  \/ \E name \in RequestToolNames : CallTool(name, NoArguments)

SpecAdvertised == Init /\ [][NextAdvertised]_vars

\* read_resource accepts uri: on the current catalog it does not answer
\* with the unknown-URI error
Accepted(uri) ==
  ReadResourceOutcome(design_data, uri).error
    # "ValueError: Unknown resource URI: " \o uri

\* call_tool dispatches name: on the current catalog it calls a producer
Dispatched(name) == CallToolOutcome(design_data, name, EmptyDict).calls # <<>>

\* the names the latest listing returned agree with the names handled
ListingAgreesWithHandling ==
  /\ result.op = "list_resources"
     => /\ result.value = {u \in RequestUris : Accepted(u)}
        /\ Cardinality(result.value) = 10
        /\ result.calls = <<>>
  /\ result.op = "list_tools"
     => /\ result.value = {n \in RequestToolNames : Dispatched(n)}
        /\ Cardinality(result.value) = 4
        /\ result.calls = <<>>
  /\ result.op = "read_resource"
     => (result.arg \in ListedResourceUris
           <=> result.error # "ValueError: Unknown resource URI: "
                                \o result.arg)
  /\ result.op = "call_tool"
     => (result.arg \in ListedToolNames
           <=> Len(result.calls) = 2)

\* a step that leaves a listing as the latest operation leaves the catalog
\* and the read counts as they were
ListingLeavesCatalog ==
  result'.op \in {"list_resources", "list_tools"}
  => UNCHANGED <<design_data, loaded, css_reads, figma_reads, last_build>>

\* C22: list_resources returns exactly the 10 URIs read_resource accepts,
\* list_tools returns exactly the 4 names call_tool dispatches to a
\* producer, and neither listing runs the catalog load or changes the
\* catalog.
C22_AdvertisedAreHandled ==
  [] ListingAgreesWithHandling /\ [][ListingLeavesCatalog]_vars

\* the resources were listed before any load: the catalog is still as
\* constructed and no source was read
C22_Witness ==
  /\ result.op = "list_resources"
  /\ Cardinality(result.value) = 10
  /\ ~loaded
  /\ design_data = EmptyDict
  /\ css_reads = 0
  /\ figma_reads = 0
  /\ css_file.state = "readable"

(***************************************************************************)
(* The round trip specification: on a catalog extracted from a generated   *)
(* token source, with no secondary source, get_token_value is called with  *)
(* the name of each declaration the Extractor categorizes.                 *)
(***************************************************************************)
\* the declarations of text whose name starts with color-, font- or
\* spacing-
CategorizedDeclarations(text) ==
  {m \in {FindAll(text)[i] : i \in 1..Len(FindAll(text))} :
     \/ StartsWith(m.prop_name, ColorPrefix)
     \/ StartsWith(m.prop_name, FontPrefix)
     \/ StartsWith(m.prop_name, SpacingPrefix)}

InitRoundTrip == InitExtract

NextRoundTrip ==
  /\ css_file.state = "readable"
  /\ \E m \in CategorizedDeclarations(css_file.content) :
       CallTool("get_token_value",
                Arguments([token_name |->
                             PyStr("vita-" \o Str(m.prop_name))]))

SpecRoundTrip == InitRoundTrip /\ [][NextRoundTrip]_vars

\* the declarations of the primary source the latest lookup names
LookedUpDeclarations ==
  {m \in CategorizedDeclarations(css_file.content) :
     RequestedTokenName = PyStr("vita-" \o Str(m.prop_name))}

\* the <<category, key>> pairs of the token records of the catalog
TokenRecordKeys ==
  UNION {{<<c, k>> : k \in DOMAIN design_data[c]} :
           c \in TokenCategories \cap DOMAIN design_data}

\* C23: for every declaration --vita-<key>: <v>; of the primary source with
\* <key> starting with color-, font- or spacing-, get_token_value with
\* token_name vita-<key> returns a record, not the not-found message, whose
\* value is the stripped value of a declaration of that <key>; and no two
\* records of the catalog have the same css_var.
C23_DeclarationsAreLookedUp ==
  (/\ result.op = "call_tool"
   /\ result.arg = "get_token_value"
   /\ css_file.state = "readable")
  => /\ \A m \in LookedUpDeclarations :
          /\ result.status = "ok"
          /\ result.value[1] = "Token: "
          /\ \E d \in LookedUpDeclarations :
               result.value[4] = Str(Strip(d.value))
     /\ \A p, q \in TokenRecordKeys :
          p # q => design_data[p[1]][p[2]].css_var
                     # design_data[q[1]][q[2]].css_var

(***************************************************************************)
(* The merged lookup specification: get_token_value on the catalog of      *)
(* every pair of source files, with names of Extractor records, of the     *)
(* fallback record and of the records the Merger inserts.                  *)
(***************************************************************************)
\* the token names looked up: the css name of an extracted record, of the
\* fallback record and of a merged record, then the figma path, the key
\* and the value of a merged record
MergedLookupNames ==
  {"vita-color-brand-primary-light", "vita-color-brand-primary",
   "vita-color-brand-primary-dark", "vita-color-surface-bg-light",
   "color.brand.primary.dark", "vita_color_brand_primary_dark", "#222"}

NextMerged ==
  \/ \E n \in MergedLookupNames :
       CallTool("get_token_value", Arguments([token_name |-> PyStr(n)]))
  \/ CallTool("get_token_value", NoArguments)

SpecMerged == Init /\ [][NextMerged]_vars

\* the colors keys the Merger inserted in the latest catalog construction
MergerInserted ==
  IF /\ last_build.ran
     /\ last_build.figma.state = "json"
     /\ "colors" \in DOMAIN design_data
     /\ "colors" \in DOMAIN last_build.extracted
  THEN DOMAIN design_data.colors \ DOMAIN last_build.extracted.colors
  ELSE {}

\* the token records the Extractor and the fallback catalog produce from
\* the primary source as it is
ExtractorOrFallbackRecords ==
  LET from(dd) == UNION {{dd[c][k] : k \in DOMAIN dd[c]} :
                           c \in TokenCategories \cap DOMAIN dd}
  IN  from(FallbackData)
        \cup (IF css_file.state = "absent" THEN {}
              ELSE from(ParseCssTokens(css_file)))

\* C24: every record the Merger inserted carries figma_path and no css_var,
\* and a successful get_token_value returns the value and description of a
\* record of the catalog that the Extractor or the fallback catalog
\* produced and that was not inserted by the Merger.
C24_LookupNeverReturnsMerged ==
  /\ \A K \in MergerInserted :
       /\ "figma_path" \in DOMAIN design_data.colors[K]
       /\ "css_var" \notin DOMAIN design_data.colors[K]
  /\ (/\ result.op = "call_tool"
      /\ result.arg = "get_token_value"
      /\ result.status = "ok"
      /\ result.value[1] = "Token: ")
     => \E p \in TokenRecordKeys :
          LET rec == design_data[p[1]][p[2]]
          IN  /\ ~(p[1] = "colors" /\ p[2] \in MergerInserted)
              /\ rec \in ExtractorOrFallbackRecords
              /\ rec.css_var = "--" \o Format(RequestedTokenName)
              /\ result.value[4] = rec.value
              /\ result.value[6] = rec.description
  /\ (/\ result.op = "call_tool"
      /\ result.arg = "get_token_value"
      /\ Format(RequestedTokenName)
           \in {"vita-color-brand-primary-dark", "color.brand.primary.dark",
                "vita_color_brand_primary_dark", "#222"}
      /\ MergerInserted # {})
     => result.value[1] = "Token '"

\* the catalog holds the record the Merger inserted for brand primary dark,
\* and the lookup of its css-style name found nothing
C24_Witness ==
  /\ result.op = "call_tool"
  /\ result.arg = "get_token_value"
  /\ RequestedTokenName = PyStr("vita-color-brand-primary-dark")
  /\ "vita_color_brand_primary_dark" \in MergerInserted
  /\ design_data.colors["vita_color_brand_primary_dark"].value = "#222"
  /\ result.status = "ok"
  /\ result.value[1] = "Token '"

====
